---- MODULE Spec2Model ----
(***************************************************************************)
(* Register / stack storage manager of the development back end            *)
(* (compiler/gen_dev/src/generic64/storage.rs), and the surgical linker    *)
(* (linker/src/lib.rs), which is the second part of the module.            *)
(*                                                                         *)
(* Every method of StorageManager is an operator from a manager record to  *)
(* a manager record, composed exactly as the Rust methods call each other. *)
(* The record carries two fields that are not fields of the struct:        *)
(*   fatal   an internal_error!/todo! was reached (the process aborts),    *)
(*   ret     the value returned by the last method that returns one,       *)
(*           in the current public operation,                              *)
(* and two that stand for the machine the emitted code runs on:            *)
(*   regs    register  -> the symbol whose value it holds, or Junk,        *)
(*   mem     8-byte slot offset -> the symbol whose value it holds.        *)
(***************************************************************************)
EXTENDS Integers, Sequences, FiniteSets, TLC

VARIABLES
    symbol_storage_map,              \* Symbol -> Storage (NoStorage when absent)
    allocation_map,                  \* Symbol -> Rc<(i32, u32)> (NoAlloc when absent)
    join_param_map,                  \* JoinPointId -> Vec<Storage> (NoJoin when absent)
    general_free_regs,
    float_free_regs,
    general_used_regs,
    float_used_regs,
    general_used_callee_saved_regs,
    float_used_callee_saved_regs,
    free_stack_chunks,
    stack_size,
    fn_call_stack_size,
    regs,                            \* contents of the physical registers
    mem,                             \* contents of the 8-byte stack slots
    fatal,                           \* the process aborted
    phase,                           \* "args": load_args is running, "body": the procedure
                                     \* body, "arena": a procedure of stack areas only,
                                     \* "link": the linker runs
    exec_data,                       \* the host executable given to preprocess
    app_data,                        \* the application object given to surgery
    exec_mmap,                       \* the output file (out_mmap in preprocess)
    md,                              \* metadata::Metadata, written by preprocess
    status                           \* the Ok(..) code of the last linker command

vars == <<symbol_storage_map, allocation_map, join_param_map, general_free_regs,
          float_free_regs, general_used_regs, float_used_regs,
          general_used_callee_saved_regs, float_used_callee_saved_regs,
          free_stack_chunks, stack_size, fn_call_stack_size, regs, mem, fatal,
          phase, exec_data, app_data, exec_mmap, md, status>>

\* the files and the metadata of the linker
link_vars == <<exec_data, app_data, exec_mmap, md, status>>

\* no linker command has run
NoLink == [kind |-> "none"]

(***************************************************************************)
(* Bounds of the model.                                                    *)
(***************************************************************************)
NumSyms == 2

NumRegSyms == 3

MaxStack == 16

NumArenaSyms == 4

MaxArena == 32

\* symbols of the procedure with a join point
NumJoinSyms == 3
\* dynamic entries of a host in front of its DT_NULL
MaxDyns == 2
\* branches in the text of a host
MaxCalls == 2
\* bytes of a host after its section header table
MaxSlack == 17

(***************************************************************************)
(* Symbols, registers and the calling convention.                          *)
(***************************************************************************)
SymName == <<"a", "b", "c", "d", "e", "f">>

RET_POINTER == "RET_POINTER"

\* the symbols of a procedure with n symbols of its own
SymbolsOf(n) == {SymName[i] : i \in 1..n} \cup {RET_POINTER}

JoinIds == {"join"}

Junk == "Junk"

NoReg == "NoReg"

\* popped from the back: the caller-saved register is handed out first
GENERAL_DEFAULT_FREE_REGS == <<"RBX", "RDI">>

FLOAT_DEFAULT_FREE_REGS == <<"XMM0">>

GeneralRegs == {GENERAL_DEFAULT_FREE_REGS[i] : i \in 1..Len(GENERAL_DEFAULT_FREE_REGS)}

FloatRegs == {FLOAT_DEFAULT_FREE_REGS[i] : i \in 1..Len(FLOAT_DEFAULT_FREE_REGS)}

general_callee_saved(reg) == reg \in {"RBX"}

float_callee_saved(reg) == FALSE

general_caller_saved(reg) == ~general_callee_saved(reg)

float_caller_saved(reg) == ~float_callee_saved(reg)

\* registers and stack slots the calling convention passes arguments in
GENERAL_PARAM_REGS == {"RDI"}

FLOAT_PARAM_REGS == {"XMM0"}

StackArgOffsets == {16}

I32_MAX == 2147483647

(***************************************************************************)
(* Storage descriptors.                                                    *)
(***************************************************************************)
NoStorage == [tag |-> "Absent"]

NoData == [tag |-> "NoData"]

Reg(r) == [tag |-> "Reg", reg |-> r]

Primitive(o, r) == [tag |-> "Primitive", base_offset |-> o, reg |-> r]

ReferencedPrimitive(o, sz, se) ==
    [tag |-> "ReferencedPrimitive", base_offset |-> o, size |-> sz, sign_extend |-> se]

Complex(o, sz) == [tag |-> "Complex", base_offset |-> o, size |-> sz]

NoAlloc == [id |-> 0, base_offset |-> 0, size |-> 0]

NoJoin == <<[tag |-> "NoJoin"]>>

NoRet == [reg |-> NoReg, off |-> 0]

(***************************************************************************)
(* Helpers on sequences.                                                   *)
(***************************************************************************)
\* a removal that leaves the element in place
RemoveAt_Kept(seq, i) == seq

RemoveAt(seq, i) == SubSeq(seq, 1, i - 1) \o SubSeq(seq, i + 1, Len(seq))

\* an insertion that ignores the position and pushes at the front
InsertAt_Front(seq, i, x) == <<x>> \o seq

InsertAt(seq, i, x) == SubSeq(seq, 1, i - 1) \o <<x>> \o SubSeq(seq, i, Len(seq))

Contains(seq, x) == \E i \in 1..Len(seq) : seq[i] = x

Retain(seq, x) == SelectSeq(seq, LAMBDA y : y # x)

Min(S) == CHOOSE x \in S : \A y \in S : x <= y

\* the manager v an operation left, handed to the operation F that follows it
Then(v, F(_)) == CHOOSE r \in {F(x) : x \in {v}} : TRUE

Fail(s) == [s EXCEPT !.fatal = TRUE]

(***************************************************************************)
(* The manager as one record.                                              *)
(***************************************************************************)
Cur ==
    [symbol_storage_map |-> symbol_storage_map,
     allocation_map |-> allocation_map,
     join_param_map |-> join_param_map,
     general_free_regs |-> general_free_regs,
     float_free_regs |-> float_free_regs,
     general_used_regs |-> general_used_regs,
     float_used_regs |-> float_used_regs,
     general_used_callee_saved_regs |-> general_used_callee_saved_regs,
     float_used_callee_saved_regs |-> float_used_callee_saved_regs,
     free_stack_chunks |-> free_stack_chunks,
     stack_size |-> stack_size,
     fn_call_stack_size |-> fn_call_stack_size,
     regs |-> regs,
     mem |-> mem,
     fatal |-> FALSE,
     ret |-> NoRet]

Slots == {-8 * i : i \in 1..((MaxStack + 8) \div 8)} \cup StackArgOffsets

\* the symbols of the procedure being generated
AllSyms == DOMAIN symbol_storage_map

Symbols == AllSyms \ {RET_POINTER}

\* registers and slots whose content is followed hold nothing known
Blank(f) == [x \in DOMAIN f |-> Junk]

reset ==
    [symbol_storage_map |-> [sym \in AllSyms |-> NoStorage],
     allocation_map |-> [sym \in AllSyms |-> NoAlloc],
     join_param_map |-> [id \in JoinIds |-> NoJoin],
     general_free_regs |-> GENERAL_DEFAULT_FREE_REGS,
     float_free_regs |-> FLOAT_DEFAULT_FREE_REGS,
     general_used_regs |-> <<>>,
     float_used_regs |-> <<>>,
     general_used_callee_saved_regs |-> {},
     float_used_callee_saved_regs |-> {},
     free_stack_chunks |-> <<>>,
     stack_size |-> 0,
     fn_call_stack_size |-> 0,
     regs |-> Blank(regs),
     mem |-> Blank(mem),
     fatal |-> FALSE,
     ret |-> NoRet]

(***************************************************************************)
(* Stack arena.                                                            *)
(***************************************************************************)
RoundUp8(amount) == IF amount % 8 # 0 THEN amount + 8 - (amount % 8) ELSE amount

\* position of the smallest chunk that fits, the first one among equals
\* (Iterator::min_by_key), 0 when none fits
FittingChunk(chunks, amount) ==
    LET fits == {i \in 1..Len(chunks) : chunks[i][2] >= amount}
    IN  IF fits = {} THEN 0
        ELSE Min({i \in fits : \A j \in fits : chunks[i][2] <= chunks[j][2]})

\* a claim that takes the front of a larger chunk and leaves the chunk whole
claim_stack_size_Whole(s, amount0) ==
    LET amount == RoundUp8(amount0)
        pos == FittingChunk(s.free_stack_chunks, amount)
    IN  IF s.fatal THEN s
        ELSE IF pos # 0
        THEN LET offset == s.free_stack_chunks[pos][1]
                 size == s.free_stack_chunks[pos][2]
             IN  [s EXCEPT
                    !.free_stack_chunks =
                        IF size = amount THEN RemoveAt(@, pos) ELSE @,
                    !.ret = [reg |-> NoReg, off |-> offset]]
        ELSE IF s.stack_size + amount > I32_MAX THEN Fail(s)
        ELSE [s EXCEPT
                !.stack_size = @ + amount,
                !.ret = [reg |-> NoReg, off |-> -(s.stack_size + amount)]]

\* debug_assert!(amount > 0): no caller of the model asks for 0 bytes
claim_stack_size(s, amount0) ==
    LET amount == RoundUp8(amount0)
        pos == FittingChunk(s.free_stack_chunks, amount)
    IN  IF s.fatal THEN s
        ELSE IF pos # 0
        THEN LET offset == s.free_stack_chunks[pos][1]
                 size == s.free_stack_chunks[pos][2]
             IN  [s EXCEPT
                    !.free_stack_chunks =
                        IF size = amount THEN RemoveAt(@, pos)
                        ELSE [@ EXCEPT ![pos] = <<offset + amount, size - amount>>],
                    !.ret = [reg |-> NoReg, off |-> offset]]
        ELSE IF s.stack_size + amount > I32_MAX THEN Fail(s)
        ELSE [s EXCEPT
                !.stack_size = @ + amount,
                !.ret = [reg |-> NoReg, off |-> -(s.stack_size + amount)]]

\* (i32, u32) tuples compare lexicographically
ChunkLess(c1, c2) == c1[1] < c2[1] \/ (c1[1] = c2[1] /\ c1[2] < c2[2])

\* a search that always answers the first position
BinarySearch_First(chunks, loc) == 0

\* slice::binary_search(&loc).unwrap_or_else(|e| e) on the sorted list, 0-based
BinarySearch(chunks, loc) == Cardinality({i \in 1..Len(chunks) : ChunkLess(chunks[i], loc)})

\* a release that trusts its caller: the chunk is inserted where it sorts,
\* whatever lies there
free_stack_chunk_Trusting(s, base_offset, size) ==
    IF s.fatal THEN s
    ELSE [s EXCEPT !.free_stack_chunks =
            InsertAt(@, BinarySearch(@, <<base_offset, size>>) + 1, <<base_offset, size>>)]

free_stack_chunk(s, base_offset, size) ==
    LET chunks == s.free_stack_chunks
        pos == BinarySearch(chunks, <<base_offset, size>>)
        has_prev == pos > 0
        has_next == pos < Len(chunks)
        prev_end == chunks[pos][1] + chunks[pos][2]
        current_end == base_offset + size
        merge_with_prev == has_prev /\ prev_end = base_offset
        merge_with_next == has_next /\ current_end = chunks[pos + 1][1]
    IN  IF s.fatal THEN s
        ELSE IF has_prev /\ prev_end > base_offset THEN Fail(s)
        ELSE IF has_next /\ current_end > chunks[pos + 1][1] THEN Fail(s)
        ELSE IF merge_with_prev /\ merge_with_next
        THEN [s EXCEPT !.free_stack_chunks =
                RemoveAt([chunks EXCEPT ![pos] =
                    <<chunks[pos][1], chunks[pos][2] + size + chunks[pos + 1][2]>>], pos + 1)]
        ELSE IF merge_with_prev
        THEN [s EXCEPT !.free_stack_chunks =
                [chunks EXCEPT ![pos] = <<chunks[pos][1], chunks[pos][2] + size>>]]
        ELSE IF merge_with_next
        THEN [s EXCEPT !.free_stack_chunks =
                [chunks EXCEPT ![pos + 1] = <<base_offset, chunks[pos + 1][2] + size>>]]
        ELSE [s EXCEPT !.free_stack_chunks = InsertAt(chunks, pos + 1, <<base_offset, size>>)]

(***************************************************************************)
(* Symbol and allocation maps.                                             *)
(***************************************************************************)
\* Rc::strong_count of the handle: the map entries that hold it
StrongCount(s, id) ==
    Cardinality({sym \in DOMAIN s.allocation_map : s.allocation_map[sym].id = id})

\* Rc::new: the allocation of a fresh handle
NewHandle(s) ==
    Min({i \in 1..(Cardinality(DOMAIN s.allocation_map) + 1) : StrongCount(s, i) = 0})

\* the content of a register or slot is followed where the machine is modelled
WriteMem(m, offset, v) == IF offset \in DOMAIN m THEN [m EXCEPT ![offset] = v] ELSE m

ReadMem(m, offset) == IF offset \in DOMAIN m THEN m[offset] ELSE Junk

WriteReg(rs, reg, v) == IF reg \in DOMAIN rs THEN [rs EXCEPT ![reg] = v] ELSE rs

ReadReg(rs, reg) == IF reg \in DOMAIN rs THEN rs[reg] ELSE Junk

\* a release that returns the chunk whoever else still holds the handle
free_reference_Eager(s, sym) ==
    free_stack_chunk([s EXCEPT !.allocation_map[sym] = NoAlloc],
                     s.allocation_map[sym].base_offset, s.allocation_map[sym].size)

free_reference(s, sym) ==
    LET owned_data == s.allocation_map[sym]
        s1 == [s EXCEPT !.allocation_map[sym] = NoAlloc]
    IN  IF s.fatal THEN s
        ELSE IF owned_data = NoAlloc THEN Fail(s)
        ELSE IF StrongCount(s1, owned_data.id) = 0
        THEN free_stack_chunk(s1, owned_data.base_offset, owned_data.size)
        ELSE s1

(***************************************************************************)
(* Register acquisition and spilling.                                      *)
(***************************************************************************)
free_to_stack(s, sym, wanted_reg) ==
    LET storage == s.symbol_storage_map[sym]
    IN  IF s.fatal THEN s
        ELSE IF storage.tag = "Reg"
        THEN IF storage.reg # wanted_reg THEN Fail(s)
             ELSE Then(claim_stack_size([s EXCEPT !.symbol_storage_map[sym] = NoStorage], 8),
                       LAMBDA s1 :
                          IF s1.fatal THEN s1
                          ELSE [s1 EXCEPT
                                  !.mem = WriteMem(@, s1.ret.off, ReadReg(s1.regs, storage.reg)),
                                  !.symbol_storage_map[sym] = Primitive(s1.ret.off, NoReg)])
        ELSE IF storage.tag = "Primitive" /\ storage.reg # NoReg
        THEN IF storage.reg # wanted_reg THEN Fail(s)
             ELSE [s EXCEPT !.symbol_storage_map[sym] = Primitive(storage.base_offset, NoReg)]
        ELSE Fail(s)

\* an eviction that takes the newest entry of the used list
get_general_reg_Newest(s) ==
    IF s.fatal THEN s
    ELSE IF Len(s.general_free_regs) > 0
    THEN LET reg == s.general_free_regs[Len(s.general_free_regs)]
         IN  [s EXCEPT
                !.general_free_regs = SubSeq(@, 1, Len(@) - 1),
                !.general_used_callee_saved_regs =
                    IF general_callee_saved(reg) THEN @ \cup {reg} ELSE @,
                !.ret.reg = reg]
    ELSE IF Len(s.general_used_regs) > 0
    THEN LET last == Len(s.general_used_regs)
             reg == s.general_used_regs[last][1]
             sym == s.general_used_regs[last][2]
             s1 == free_to_stack([s EXCEPT !.general_used_regs = SubSeq(@, 1, last - 1)],
                                 sym, reg)
         IN  [s1 EXCEPT !.ret.reg = reg]
    ELSE Fail(s)

\* a register handed out without a record of the callee-saved ones
get_general_reg_Unrecorded(s) ==
    IF s.fatal THEN s
    ELSE IF Len(s.general_free_regs) > 0
    THEN LET reg == s.general_free_regs[Len(s.general_free_regs)]
         IN  [s EXCEPT
                !.general_free_regs = SubSeq(@, 1, Len(@) - 1),
                !.ret.reg = reg]
    ELSE IF Len(s.general_used_regs) > 0
    THEN LET reg == s.general_used_regs[1][1]
             sym == s.general_used_regs[1][2]
             s1 == free_to_stack([s EXCEPT !.general_used_regs = Tail(@)], sym, reg)
         IN  [s1 EXCEPT !.ret.reg = reg]
    ELSE Fail(s)

get_general_reg(s) ==
    IF s.fatal THEN s
    ELSE IF Len(s.general_free_regs) > 0
    THEN LET reg == s.general_free_regs[Len(s.general_free_regs)]
         IN  [s EXCEPT
                !.general_free_regs = SubSeq(@, 1, Len(@) - 1),
                !.general_used_callee_saved_regs =
                    IF general_callee_saved(reg) THEN @ \cup {reg} ELSE @,
                !.ret.reg = reg]
    ELSE IF Len(s.general_used_regs) > 0
    THEN LET reg == s.general_used_regs[1][1]
             sym == s.general_used_regs[1][2]
             s1 == free_to_stack([s EXCEPT !.general_used_regs = Tail(@)], sym, reg)
         IN  [s1 EXCEPT !.ret.reg = reg]
    ELSE Fail(s)

get_float_reg(s) ==
    IF s.fatal THEN s
    ELSE IF Len(s.float_free_regs) > 0
    THEN LET reg == s.float_free_regs[Len(s.float_free_regs)]
         IN  [s EXCEPT
                !.float_free_regs = SubSeq(@, 1, Len(@) - 1),
                !.float_used_callee_saved_regs =
                    IF float_callee_saved(reg) THEN @ \cup {reg} ELSE @,
                !.ret.reg = reg]
    ELSE IF Len(s.float_used_regs) > 0
    THEN LET reg == s.float_used_regs[1][1]
             sym == s.float_used_regs[1][2]
             s1 == free_to_stack([s EXCEPT !.float_used_regs = Tail(@)], sym, reg)
         IN  [s1 EXCEPT !.ret.reg = reg]
    ELSE Fail(s)

claim_general_reg(s, sym) ==
    Then(get_general_reg(s),
         LAMBDA s1 :
            IF s1.fatal THEN s1
            ELSE [s1 EXCEPT
                    !.general_used_regs = Append(@, <<s1.ret.reg, sym>>),
                    !.symbol_storage_map[sym] = Reg(s1.ret.reg)])

claim_float_reg(s, sym) ==
    Then(get_float_reg(s),
         LAMBDA s1 :
            IF s1.fatal THEN s1
            ELSE [s1 EXCEPT
                    !.float_used_regs = Append(@, <<s1.ret.reg, sym>>),
                    !.symbol_storage_map[sym] = Reg(s1.ret.reg)])

\* the callback writes the temporary register and leaves the manager alone
with_tmp_general_reg(s) ==
    Then(get_general_reg(s),
         LAMBDA s1 :
            IF s1.fatal THEN s1
            ELSE [s1 EXCEPT
                    !.regs = WriteReg(@, s1.ret.reg, Junk),
                    !.general_free_regs = Append(@, s1.ret.reg)])

with_tmp_float_reg(s) ==
    Then(get_float_reg(s),
         LAMBDA s1 :
            IF s1.fatal THEN s1
            ELSE [s1 EXCEPT
                    !.regs = WriteReg(@, s1.ret.reg, Junk),
                    !.float_free_regs = Append(@, s1.ret.reg)])

(***************************************************************************)
(* Load paths.                                                             *)
(***************************************************************************)
load_to_general_reg(s, sym) ==
    LET storage == s.symbol_storage_map[sym]
        removed == [s EXCEPT !.symbol_storage_map[sym] = NoStorage]
    IN  IF s.fatal THEN s
        ELSE IF storage = NoStorage THEN Fail(s)
        ELSE IF storage.tag \in {"Reg", "Primitive"} /\ storage.reg \in GeneralRegs
        THEN [s EXCEPT !.ret.reg = storage.reg]
        ELSE IF storage.tag \in {"Reg", "Primitive"} /\ storage.reg \in FloatRegs
        THEN Fail(s)
        ELSE IF storage.tag = "Primitive"
        THEN IF storage.base_offset % 8 # 0 THEN Fail(s)
             ELSE Then(get_general_reg(removed),
                       LAMBDA s1 :
                          IF s1.fatal THEN s1
                          ELSE [s1 EXCEPT
                                  !.regs = WriteReg(@, s1.ret.reg,
                                                    ReadMem(s1.mem, storage.base_offset)),
                                  !.general_used_regs = Append(@, <<s1.ret.reg, sym>>),
                                  !.symbol_storage_map[sym] =
                                      Primitive(storage.base_offset, s1.ret.reg)])
        ELSE IF storage.tag = "ReferencedPrimitive"
        THEN Then(get_general_reg(removed),
                  LAMBDA s1 :
                     IF s1.fatal THEN s1
                     ELSE free_reference(
                             [s1 EXCEPT
                                 !.regs = WriteReg(@, s1.ret.reg, sym),
                                 !.general_used_regs = Append(@, <<s1.ret.reg, sym>>),
                                 !.symbol_storage_map[sym] = Reg(s1.ret.reg)], sym))
        ELSE Fail(s)

load_to_float_reg(s, sym) ==
    LET storage == s.symbol_storage_map[sym]
        removed == [s EXCEPT !.symbol_storage_map[sym] = NoStorage]
    IN  IF s.fatal THEN s
        ELSE IF storage = NoStorage THEN Fail(s)
        ELSE IF storage.tag \in {"Reg", "Primitive"} /\ storage.reg \in FloatRegs
        THEN [s EXCEPT !.ret.reg = storage.reg]
        ELSE IF storage.tag \in {"Reg", "Primitive"} /\ storage.reg \in GeneralRegs
        THEN Fail(s)
        ELSE IF storage.tag = "Primitive"
        THEN IF storage.base_offset % 8 # 0 THEN Fail(s)
             ELSE Then(get_float_reg(removed),
                       LAMBDA s1 :
                          IF s1.fatal THEN s1
                          ELSE [s1 EXCEPT
                                  !.regs = WriteReg(@, s1.ret.reg,
                                                    ReadMem(s1.mem, storage.base_offset)),
                                  !.float_used_regs = Append(@, <<s1.ret.reg, sym>>),
                                  !.symbol_storage_map[sym] =
                                      Primitive(storage.base_offset, s1.ret.reg)])
        ELSE IF storage.tag = "ReferencedPrimitive"
                /\ storage.base_offset % 8 = 0 /\ storage.size = 8
        THEN Then(get_float_reg(removed),
                  LAMBDA s1 :
                     IF s1.fatal THEN s1
                     ELSE free_reference(
                             [s1 EXCEPT
                                 !.regs = WriteReg(@, s1.ret.reg, sym),
                                 !.float_used_regs = Append(@, <<s1.ret.reg, sym>>),
                                 !.symbol_storage_map[sym] = Reg(s1.ret.reg)], sym))
        ELSE Fail(s)

load_to_specified_general_reg(s, sym, reg) ==
    LET storage == s.symbol_storage_map[sym]
    IN  IF s.fatal THEN s
        ELSE IF storage = NoStorage THEN Fail(s)
        ELSE IF storage.tag \in {"Reg", "Primitive"} /\ storage.reg \in GeneralRegs
        THEN IF storage.reg = reg THEN s
             ELSE [s EXCEPT !.regs = WriteReg(@, reg, ReadReg(s.regs, storage.reg))]
        ELSE IF storage.tag \in {"Reg", "Primitive"} /\ storage.reg \in FloatRegs
        THEN Fail(s)
        ELSE IF storage.tag = "Primitive"
        THEN IF storage.base_offset % 8 # 0 THEN Fail(s)
             ELSE [s EXCEPT !.regs = WriteReg(@, reg, ReadMem(s.mem, storage.base_offset))]
        ELSE IF storage.tag = "ReferencedPrimitive"
                /\ storage.base_offset % 8 = 0 /\ storage.size = 8
        THEN [s EXCEPT !.regs = WriteReg(@, reg, sym)]
        ELSE Fail(s)

load_to_specified_float_reg(s, sym, reg) ==
    LET storage == s.symbol_storage_map[sym]
    IN  IF s.fatal THEN s
        ELSE IF storage = NoStorage THEN Fail(s)
        ELSE IF storage.tag \in {"Reg", "Primitive"} /\ storage.reg \in FloatRegs
        THEN IF storage.reg = reg THEN s
             ELSE [s EXCEPT !.regs = WriteReg(@, reg, ReadReg(s.regs, storage.reg))]
        ELSE IF storage.tag \in {"Reg", "Primitive"} /\ storage.reg \in GeneralRegs
        THEN Fail(s)
        ELSE IF storage.tag = "Primitive"
        THEN IF storage.base_offset % 8 # 0 THEN Fail(s)
             ELSE [s EXCEPT !.regs = WriteReg(@, reg, ReadMem(s.mem, storage.base_offset))]
        ELSE IF storage.tag = "ReferencedPrimitive"
                /\ storage.base_offset % 8 = 0 /\ storage.size = 8
        THEN [s EXCEPT !.regs = WriteReg(@, reg, sym)]
        ELSE Fail(s)

(***************************************************************************)
(* Layouts (the layout oracle of roc_mono).                                *)
(***************************************************************************)
Builtin(name, size, class, se) ==
    [name |-> name, stack_size |-> size, class |-> class, sign_extend |-> se,
     fields |-> <<>>]

I64 == Builtin("I64", 8, "int", FALSE)

I32 == Builtin("I32", 4, "int", TRUE)

F64 == Builtin("F64", 8, "float", FALSE)

RECURSIVE SumSizes(_)
SumSizes(layouts) ==
    IF layouts = <<>> THEN 0 ELSE Head(layouts).stack_size + SumSizes(Tail(layouts))

Struct(field_layouts) ==
    [name |-> "Struct", stack_size |-> SumSizes(field_layouts), class |-> "other",
     sign_extend |-> FALSE, fields |-> field_layouts]

\* single_register_layouts!()
is_primitive(layout) == layout.class \in {"int", "float"}

\* the field lists of the struct layouts the driver works with
FieldLayouts ==
    {<<>>, <<I64>>, <<I64, I64>>, <<F64, I64>>, <<I64, I32>>, <<Struct(<<I64>>), I64>>}

\* UnionLayout: NonRecursive with its data size, alignment and tag id builtin,
\* and a recursive shape
UnionLayouts ==
    {[kind |-> "NonRecursive", data_size |-> 16, data_alignment |-> 8,
      id_size |-> 1, id_sign_extend |-> FALSE],
     [kind |-> "Recursive", data_size |-> 16, data_alignment |-> 8,
      id_size |-> 1, id_sign_extend |-> FALSE]}

(***************************************************************************)
(* Stack areas and composite access.                                       *)
(***************************************************************************)
claim_stack_area(s, sym, size) ==
    Then(claim_stack_size(s, size),
         LAMBDA s1 :
            IF s1.fatal THEN s1
            ELSE [s1 EXCEPT
                    !.symbol_storage_map[sym] = Complex(s1.ret.off, size),
                    !.allocation_map[sym] =
                        [id |-> NewHandle(s1), base_offset |-> s1.ret.off, size |-> size]])

\* a field load that gives the field its storage and no handle
load_field_at_index_Unowned(s, sym, structure, index, field_layouts) ==
    IF s.fatal THEN s
    ELSE IF s.symbol_storage_map[structure].tag # "Complex" THEN Fail(s)
    ELSE [s EXCEPT
            !.symbol_storage_map[sym] =
                Complex(s.symbol_storage_map[structure].base_offset
                            + SumSizes(SubSeq(field_layouts, 1, index)),
                        field_layouts[index + 1].stack_size)]

load_field_at_index(s, sym, structure, index, field_layouts) ==
    LET owned_data == s.allocation_map[structure]
        storage == s.symbol_storage_map[structure]
        data_offset == storage.base_offset + SumSizes(SubSeq(field_layouts, 1, index))
        layout == field_layouts[index + 1]
        size == layout.stack_size
    IN  IF s.fatal THEN s
        ELSE IF owned_data = NoAlloc THEN Fail(s)
        ELSE IF storage.tag # "Complex" THEN Fail(s)
        ELSE IF ~(data_offset < storage.base_offset + storage.size) THEN Fail(s)
        ELSE [s EXCEPT
                !.allocation_map[sym] = owned_data,
                !.symbol_storage_map[sym] =
                    IF is_primitive(layout)
                    THEN ReferencedPrimitive(data_offset, size, layout.sign_extend)
                    ELSE Complex(data_offset, size)]

stack_offset_and_size(s, sym) ==
    LET storage == s.symbol_storage_map[sym]
    IN  IF storage.tag = "Primitive" THEN <<storage.base_offset, 8>>
        ELSE <<storage.base_offset, storage.size>>

OnStack(s, sym) ==
    s.symbol_storage_map[sym].tag \in {"Primitive", "ReferencedPrimitive", "Complex"}

load_union_tag_id(s, sym, structure, union_layout) ==
    LET owned_data == s.allocation_map[structure]
        union_offset == stack_offset_and_size(s, structure)[1]
        id_offset == union_layout.data_size - union_layout.data_alignment
    IN  IF s.fatal THEN s
        ELSE IF owned_data = NoAlloc THEN Fail(s)
        ELSE IF union_layout.kind # "NonRecursive" THEN Fail(s)
        ELSE IF ~OnStack(s, structure) THEN Fail(s)
        ELSE [s EXCEPT
                !.allocation_map[sym] = owned_data,
                !.symbol_storage_map[sym] =
                    ReferencedPrimitive(union_offset + id_offset, union_layout.id_size,
                                        union_layout.id_sign_extend)]

copy_symbol_to_stack_offset(s, to_offset, sym, layout) ==
    IF s.fatal THEN s
    ELSE IF layout.name \in {"I64", "U64"}
    THEN IF to_offset % 8 # 0 THEN Fail(s)
         ELSE Then(load_to_general_reg(s, sym),
                   LAMBDA s1 :
                      IF s1.fatal THEN s1
                      ELSE [s1 EXCEPT
                              !.mem = WriteMem(@, to_offset, ReadReg(s1.regs, s1.ret.reg))])
    ELSE IF layout.name = "F64"
    THEN IF to_offset % 8 # 0 THEN Fail(s)
         ELSE Then(load_to_float_reg(s, sym),
                   LAMBDA s1 :
                      IF s1.fatal THEN s1
                      ELSE [s1 EXCEPT
                              !.mem = WriteMem(@, to_offset, ReadReg(s1.regs, s1.ret.reg))])
    ELSE Fail(s)

\* the loop of create_struct over fields.iter().zip(field_layouts.iter())
RECURSIVE CopyFields(_, _, _, _)
CopyFields(s, current_offset, fields, field_layouts) ==
    IF fields = <<>> \/ field_layouts = <<>> THEN s
    ELSE Then(copy_symbol_to_stack_offset(s, current_offset, Head(fields), Head(field_layouts)),
              LAMBDA s1 : CopyFields(s1, current_offset + Head(field_layouts).stack_size,
                                     Tail(fields), Tail(field_layouts)))

create_struct(s, sym, layout, fields) ==
    LET struct_size == layout.stack_size
    IN  IF s.fatal THEN s
        ELSE IF struct_size = 0 THEN [s EXCEPT !.symbol_storage_map[sym] = NoData]
        ELSE Then(claim_stack_area(s, sym, struct_size),
                  LAMBDA s1 :
                      IF layout.name = "Struct"
                      THEN CopyFields(s1, s1.ret.off, fields, layout.fields)
                      ELSE IF Len(fields) # 1 THEN Fail(s1)
                      ELSE copy_symbol_to_stack_offset(s1, s1.ret.off, fields[1], layout))

(***************************************************************************)
(* Argument registration.                                                  *)
(***************************************************************************)
general_reg_arg(s, sym, reg) ==
    [s EXCEPT
        !.symbol_storage_map[sym] = Reg(reg),
        !.general_free_regs = Retain(@, reg),
        !.general_used_regs = Append(@, <<reg, sym>>)]

float_reg_arg(s, sym, reg) ==
    [s EXCEPT
        !.symbol_storage_map[sym] = Reg(reg),
        !.float_free_regs = Retain(@, reg),
        !.float_used_regs = Append(@, <<reg, sym>>)]

primitive_stack_arg(s, sym, base_offset) ==
    [s EXCEPT !.symbol_storage_map[sym] = Primitive(base_offset, NoReg)]

ret_pointer_arg(s, reg) ==
    [s EXCEPT !.symbol_storage_map[RET_POINTER] = Reg(reg)]

(***************************************************************************)
(* Join points.                                                            *)
(***************************************************************************)
\* Iterator::position, 0 when there is none
Position(used_regs, reg) ==
    LET hits == {i \in 1..Len(used_regs) : used_regs[i][1] = reg}
    IN  IF hits = {} THEN 0 ELSE Min(hits)

\* the register of an evicted symbol does not go back to the free list
ensure_reg_free_Kept(s, wanted_reg) ==
    IF s.fatal THEN s
    ELSE IF wanted_reg \in GeneralRegs
    THEN IF Contains(s.general_free_regs, wanted_reg) THEN s
         ELSE IF Position(s.general_used_regs, wanted_reg) = 0 THEN Fail(s)
         ELSE free_to_stack(
                 [s EXCEPT !.general_used_regs =
                              RemoveAt(@, Position(s.general_used_regs, wanted_reg))],
                 s.general_used_regs[Position(s.general_used_regs, wanted_reg)][2],
                 wanted_reg)
    ELSE IF Contains(s.float_free_regs, wanted_reg) THEN s
         ELSE IF Position(s.float_used_regs, wanted_reg) = 0 THEN Fail(s)
         ELSE free_to_stack(
                 [s EXCEPT !.float_used_regs =
                              RemoveAt(@, Position(s.float_used_regs, wanted_reg))],
                 s.float_used_regs[Position(s.float_used_regs, wanted_reg)][2],
                 wanted_reg)

ensure_reg_free(s, wanted_reg) ==
    IF s.fatal THEN s
    ELSE IF wanted_reg \in GeneralRegs
    THEN IF Contains(s.general_free_regs, wanted_reg) THEN s
         ELSE IF Position(s.general_used_regs, wanted_reg) = 0 THEN Fail(s)
         ELSE Then(free_to_stack(
                      [s EXCEPT !.general_used_regs =
                                   RemoveAt(@, Position(s.general_used_regs, wanted_reg))],
                      s.general_used_regs[Position(s.general_used_regs, wanted_reg)][2],
                      wanted_reg),
                   LAMBDA s1 :
                      IF s1.fatal THEN s1
                      ELSE [s1 EXCEPT !.general_free_regs = Append(@, wanted_reg)])
    ELSE IF Contains(s.float_free_regs, wanted_reg) THEN s
         ELSE IF Position(s.float_used_regs, wanted_reg) = 0 THEN Fail(s)
         ELSE Then(free_to_stack(
                      [s EXCEPT !.float_used_regs =
                                   RemoveAt(@, Position(s.float_used_regs, wanted_reg))],
                      s.float_used_regs[Position(s.float_used_regs, wanted_reg)][2],
                      wanted_reg),
                   LAMBDA s1 :
                      IF s1.fatal THEN s1
                      ELSE [s1 EXCEPT !.float_free_regs = Append(@, wanted_reg)])

\* one parameter of setup_joinpoint: a location is claimed for it
JoinParam(s, param) ==
    IF param.borrow THEN Fail(s)
    ELSE IF param.layout.class = "int" THEN claim_general_reg(s, param.symbol)
    ELSE IF param.layout.class = "float" THEN claim_float_reg(s, param.symbol)
    ELSE IF param.layout.stack_size = 0
    THEN [s EXCEPT !.symbol_storage_map[param.symbol] = NoData]
    ELSE claim_stack_area(s, param.symbol, param.layout.stack_size)

\* the loop of setup_joinpoint over params; param_storage is the list built so
\* far, and the result carries the list in ret
RECURSIVE JoinParams(_, _, _)
JoinParams(s, params, param_storage) ==
    IF s.fatal THEN s
    ELSE IF params = <<>> THEN [s EXCEPT !.ret = param_storage]
    ELSE Then(JoinParam(s, Head(params)),
              LAMBDA s1 :
                 IF s1.fatal THEN s1
                 ELSE JoinParams(s1, Tail(params),
                                 Append(param_storage,
                                        s1.symbol_storage_map[Head(params).symbol])))

setup_joinpoint(s, id, params) ==
    Then(JoinParams(s, params, <<>>),
         LAMBDA s1 :
            IF s1.fatal THEN s1
            ELSE [s1 EXCEPT !.join_param_map[id] = s1.ret, !.ret = NoRet])

\* one argument of setup_jump: its value is moved to the storage the join point
\* expects it in
JumpArg(s, sym, layout, wanted_storage) ==
    IF s.symbol_storage_map[sym] = NoStorage THEN Fail(s)
    ELSE IF s.symbol_storage_map[sym] = wanted_storage THEN s
    ELSE IF wanted_storage.tag = "Reg" /\ wanted_storage.reg \in GeneralRegs
    THEN load_to_specified_general_reg(
             ensure_reg_free(s, wanted_storage.reg), sym, wanted_storage.reg)
    ELSE IF wanted_storage.tag = "Reg"
    THEN load_to_specified_float_reg(
             ensure_reg_free(s, wanted_storage.reg), sym, wanted_storage.reg)
    ELSE IF wanted_storage.tag \in {"ReferencedPrimitive", "Complex"}
    THEN copy_symbol_to_stack_offset(s, wanted_storage.base_offset, sym, layout)
    ELSE IF wanted_storage.tag = "NoData" THEN s
    ELSE Fail(s)

\* the loop of setup_jump over args.iter().zip(arg_layouts).zip(param_storage.iter())
RECURSIVE JumpArgs(_, _, _, _)
JumpArgs(s, args, arg_layouts, param_storage) ==
    IF s.fatal THEN s
    ELSE IF args = <<>> \/ arg_layouts = <<>> \/ param_storage = <<>> THEN s
    ELSE Then(JumpArg(s, Head(args), Head(arg_layouts), Head(param_storage)),
              LAMBDA s1 : JumpArgs(s1, Tail(args), Tail(arg_layouts), Tail(param_storage)))

setup_jump(s, id, args, arg_layouts) ==
    IF s.fatal THEN s
    ELSE IF s.join_param_map[id] = NoJoin THEN Fail(s)
    ELSE Then(JumpArgs([s EXCEPT !.join_param_map[id] = NoJoin], args, arg_layouts,
                       s.join_param_map[id]),
              LAMBDA s1 :
                 IF s1.fatal THEN s1
                 ELSE [s1 EXCEPT !.join_param_map[id] = s.join_param_map[id]])

(***************************************************************************)
(* Release.                                                                *)
(***************************************************************************)
\* the first entry of the used table that holds sym, 0 when there is none
SymPosition(used_regs, sym) ==
    LET hits == {i \in 1..Len(used_regs) : used_regs[i][2] = sym}
    IN  IF hits = {} THEN 0 ELSE Min(hits)

free_symbol(s, sym) ==
    IF s.fatal THEN s
    ELSE IF sym \in JoinIds /\ s.join_param_map[sym] # NoJoin
    THEN [s EXCEPT !.join_param_map[sym] = NoJoin]
    ELSE
    LET storage == IF sym \in DOMAIN s.symbol_storage_map THEN s.symbol_storage_map[sym] ELSE NoStorage
        removed == IF sym \in DOMAIN s.symbol_storage_map
                   THEN [s EXCEPT !.symbol_storage_map[sym] = NoStorage] ELSE s
        s1 == IF storage.tag = "Primitive"
              THEN free_stack_chunk(removed, storage.base_offset, 8)
              ELSE IF storage.tag \in {"Complex", "ReferencedPrimitive"}
              THEN free_reference(removed, sym)
              ELSE removed
        gi == SymPosition(s1.general_used_regs, sym)
        s2 == IF gi = 0 THEN s1
              ELSE [s1 EXCEPT
                      !.general_free_regs = Append(@, s1.general_used_regs[gi][1]),
                      !.general_used_regs = RemoveAt(@, gi)]
        fi == SymPosition(s2.float_used_regs, sym)
    IN  IF s1.fatal THEN s1
        ELSE IF fi = 0 THEN s2
        ELSE [s2 EXCEPT
                !.float_free_regs = Append(@, s2.float_used_regs[fi][1]),
                !.float_used_regs = RemoveAt(@, fi)]

(***************************************************************************)
(* Caller-saved spilling.                                                  *)
(***************************************************************************)
RECURSIVE PushGeneral(_, _)
PushGeneral(s, old_general_used_regs) ==
    IF s.fatal \/ old_general_used_regs = <<>> THEN s
    ELSE LET reg == Head(old_general_used_regs)[1]
             saved_sym == Head(old_general_used_regs)[2]
         IN  PushGeneral(
                IF general_caller_saved(reg)
                THEN free_to_stack([s EXCEPT !.general_free_regs = Append(@, reg)],
                                   saved_sym, reg)
                ELSE [s EXCEPT !.general_used_regs = Append(@, <<reg, saved_sym>>)],
                Tail(old_general_used_regs))

RECURSIVE PushFloat(_, _)
PushFloat(s, old_float_used_regs) ==
    IF s.fatal \/ old_float_used_regs = <<>> THEN s
    ELSE LET reg == Head(old_float_used_regs)[1]
             saved_sym == Head(old_float_used_regs)[2]
         IN  PushFloat(
                IF float_caller_saved(reg)
                THEN free_to_stack([s EXCEPT !.float_free_regs = Append(@, reg)],
                                   saved_sym, reg)
                ELSE [s EXCEPT !.float_used_regs = Append(@, <<reg, saved_sym>>)],
                Tail(old_float_used_regs))

\* a walk that gives the caller-saved registers back and spills nothing
push_used_caller_saved_regs_to_stack_Unspilled(s) ==
    [s EXCEPT
        !.general_used_regs = SelectSeq(@, LAMBDA e : ~general_caller_saved(e[1])),
        !.float_used_regs = SelectSeq(@, LAMBDA e : ~float_caller_saved(e[1])),
        !.general_free_regs =
            @ \o [i \in 1..Len(SelectSeq(s.general_used_regs,
                                         LAMBDA e : general_caller_saved(e[1]))) |->
                    SelectSeq(s.general_used_regs,
                              LAMBDA e : general_caller_saved(e[1]))[i][1]],
        !.float_free_regs =
            @ \o [i \in 1..Len(SelectSeq(s.float_used_regs,
                                         LAMBDA e : float_caller_saved(e[1]))) |->
                    SelectSeq(s.float_used_regs,
                              LAMBDA e : float_caller_saved(e[1]))[i][1]]]

push_used_caller_saved_regs_to_stack(s) ==
    LET s1 == PushGeneral([s EXCEPT !.general_used_regs = <<>>], s.general_used_regs)
    IN  IF s1.fatal THEN s1
        ELSE PushFloat([s1 EXCEPT !.float_used_regs = <<>>], s1.float_used_regs)

(***************************************************************************)
(* The driver: one action per public operation.                            *)
(***************************************************************************)
\* the manager of a procedure with the symbols syms, after reset; rs and m are
\* the registers and slots whose content is followed
InitOf(syms, rs, m, ph) ==
    /\ symbol_storage_map = [sym \in syms |-> NoStorage]
    /\ allocation_map = [sym \in syms |-> NoAlloc]
    /\ join_param_map = [id \in JoinIds |-> NoJoin]
    /\ general_free_regs = GENERAL_DEFAULT_FREE_REGS
    /\ float_free_regs = FLOAT_DEFAULT_FREE_REGS
    /\ general_used_regs = <<>>
    /\ float_used_regs = <<>>
    /\ general_used_callee_saved_regs = {}
    /\ float_used_callee_saved_regs = {}
    /\ free_stack_chunks = <<>>
    /\ stack_size = 0
    /\ fn_call_stack_size = 0
    /\ regs = [r \in rs |-> Junk]
    /\ mem = [o \in m |-> Junk]
    /\ fatal = FALSE
    /\ phase = ph
    /\ exec_data = NoLink
    /\ app_data = NoLink
    /\ exec_mmap = NoLink
    /\ md = NoLink
    /\ status = NoLink

\* the manager alone: what the emitted code leaves in registers and memory is
\* not followed
Init == InitOf(SymbolsOf(NumSyms), {}, {}, "args")

\* the frames of the procedures generated are no deeper than this
StackBound == IF phase = "arena" THEN MaxArena ELSE MaxStack

\* the manager after an operation that left it as r; an abort ends the process
\* and nothing of the manager is left
Commit(r, ph) ==
    LET n == IF r.fatal THEN reset ELSE r
    IN  /\ ~fatal
        /\ r.stack_size <= StackBound
        /\ symbol_storage_map' = n.symbol_storage_map
        /\ allocation_map' = n.allocation_map
        /\ join_param_map' = n.join_param_map
        /\ general_free_regs' = n.general_free_regs
        /\ float_free_regs' = n.float_free_regs
        /\ general_used_regs' = n.general_used_regs
        /\ float_used_regs' = n.float_used_regs
        /\ general_used_callee_saved_regs' = n.general_used_callee_saved_regs
        /\ float_used_callee_saved_regs' = n.float_used_callee_saved_regs
        /\ free_stack_chunks' = n.free_stack_chunks
        /\ stack_size' = n.stack_size
        /\ fn_call_stack_size' = n.fn_call_stack_size
        /\ regs' = n.regs
        /\ mem' = n.mem
        /\ fatal' = r.fatal
        /\ phase' = IF r.fatal THEN "aborted" ELSE IF phase = "arena" THEN phase ELSE ph
        /\ UNCHANGED link_vars

Fresh(sym) == symbol_storage_map[sym] = NoStorage

Live == {sym \in AllSyms : ~Fresh(sym)}

\* the symbols whose storage names register reg
HeldIn(s, reg) ==
    {sym \in DOMAIN s.symbol_storage_map :
        /\ s.symbol_storage_map[sym].tag \in {"Reg", "Primitive"}
        /\ s.symbol_storage_map[sym].reg = reg}

\* the driver stores the value of sym in the register it was given
Define(r, sym) == [r EXCEPT !.regs = WriteReg(@, r.ret.reg, sym)]

\* the value of a released symbol is dead wherever a copy of it is left
Forget(r, sym) ==
    [r EXCEPT !.regs = [x \in DOMAIN r.regs |-> IF r.regs[x] = sym THEN Junk ELSE r.regs[x]],
              !.mem = [x \in DOMAIN r.mem |-> IF r.mem[x] = sym THEN Junk ELSE r.mem[x]]]

Reset ==
    /\ ~fatal
    /\ Commit(reset, "args")

\* load_args: the arguments of the procedure are registered first, each in the
\* register or caller-pushed slot the calling convention passes it in
GeneralRegArg ==
    \E sym \in Symbols, reg \in GENERAL_PARAM_REGS :
        /\ phase = "args"
        /\ Fresh(sym)
        /\ HeldIn(Cur, reg) = {}
        /\ Commit([general_reg_arg(Cur, sym, reg) EXCEPT !.regs = WriteReg(@, reg, sym)],
                  "args")

FloatRegArg ==
    \E sym \in Symbols, reg \in FLOAT_PARAM_REGS :
        /\ phase = "args"
        /\ Fresh(sym)
        /\ HeldIn(Cur, reg) = {}
        /\ Commit([float_reg_arg(Cur, sym, reg) EXCEPT !.regs = WriteReg(@, reg, sym)],
                  "args")

PrimitiveStackArg ==
    \E sym \in Symbols, base_offset \in StackArgOffsets :
        /\ phase = "args"
        /\ Fresh(sym)
        /\ \A other \in Live :
              OnStack(Cur, other) => symbol_storage_map[other].base_offset # base_offset
        /\ Commit([primitive_stack_arg(Cur, sym, base_offset) EXCEPT
                      !.mem = WriteMem(@, base_offset, sym)], "args")

RetPointerArg ==
    \E reg \in GENERAL_PARAM_REGS :
        /\ phase = "args"
        /\ Fresh(RET_POINTER)
        /\ HeldIn(Cur, reg) = {}
        /\ Commit([ret_pointer_arg(Cur, reg) EXCEPT !.regs = WriteReg(@, reg, RET_POINTER)],
                  "args")

ClaimGeneralReg ==
    \E sym \in Symbols :
        /\ Fresh(sym)
        /\ Commit(Define(claim_general_reg(Cur, sym), sym), "body")

ClaimFloatReg ==
    \E sym \in Symbols :
        /\ Fresh(sym)
        /\ Commit(Define(claim_float_reg(Cur, sym), sym), "body")

WithTmpGeneralReg ==
    /\ ~fatal
    /\ Commit(with_tmp_general_reg(Cur), "body")

WithTmpFloatReg ==
    /\ ~fatal
    /\ Commit(with_tmp_float_reg(Cur), "body")

LoadToGeneralReg ==
    \E sym \in AllSyms : Commit(load_to_general_reg(Cur, sym), "body")

LoadToFloatReg ==
    \E sym \in AllSyms : Commit(load_to_float_reg(Cur, sym), "body")

\* the sizes of the stack areas the driver asks for
AreaSizes == {8, 12, 16}

ClaimStackArea ==
    \E sym \in Symbols, size \in AreaSizes :
        /\ Fresh(sym)
        /\ Commit(claim_stack_area(Cur, sym, size), "body")

SymSeqs(S, n) == IF n = 0 THEN {<<>>} ELSE [1..n -> S]

CreateStruct ==
    \E sym \in Symbols, layout \in {Struct(fl) : fl \in FieldLayouts} \cup {I64} :
        \E fields \in SymSeqs(Live, IF layout.name = "Struct" THEN Len(layout.fields) ELSE 1) :
            /\ Fresh(sym)
            /\ Commit(create_struct(Cur, sym, layout, fields), "body")

\* the driver reads fields and tag ids of the symbols it built as structures and
\* unions, with the layout it built them with
LoadFieldAtIndex ==
    \E sym \in Symbols, structure \in Live, field_layouts \in FieldLayouts :
        \E index \in 0..(Len(field_layouts) - 1) :
            /\ Fresh(sym)
            /\ symbol_storage_map[structure].tag = "Complex"
            /\ SumSizes(field_layouts) = symbol_storage_map[structure].size
            /\ Commit(load_field_at_index(Cur, sym, structure, index, field_layouts), "body")

LoadUnionTagId ==
    \E sym \in Symbols, structure \in Live, union_layout \in UnionLayouts :
        /\ Fresh(sym)
        /\ symbol_storage_map[structure].tag = "Complex"
        /\ union_layout.data_size = symbol_storage_map[structure].size
        /\ Commit(load_union_tag_id(Cur, sym, structure, union_layout), "body")

FreeSymbol ==
    \E sym \in AllSyms \cup JoinIds :
        Commit(Forget(free_symbol(Cur, sym), sym), "body")

PushUsedCallerSavedRegsToStack ==
    /\ ~fatal
    /\ Commit(push_used_caller_saved_regs_to_stack(Cur), "body")

CallerSavedRegs ==
    {reg \in GeneralRegs : general_caller_saved(reg)}
        \cup {reg \in FloatRegs : float_caller_saved(reg)}

\* what a call leaves in the registers: the callee overwrites the caller-saved ones
Clobber(rs) == [x \in DOMAIN rs |-> IF x \in CallerSavedRegs THEN Junk ELSE rs[x]]

\* the call instruction; the driver emits it after
\* push_used_caller_saved_regs_to_stack
Call ==
    /\ \A i \in 1..Len(general_used_regs) : ~general_caller_saved(general_used_regs[i][1])
    /\ \A i \in 1..Len(float_used_regs) : ~float_caller_saved(float_used_regs[i][1])
    /\ regs # Clobber(regs)
    /\ Commit([Cur EXCEPT !.regs = Clobber(regs)], "body")

\* a procedure whose arguments are all passed on the stack
Next ==
    \/ Reset
    \/ PrimitiveStackArg
    \/ ClaimGeneralReg
    \/ ClaimFloatReg
    \/ WithTmpGeneralReg
    \/ WithTmpFloatReg
    \/ LoadToGeneralReg
    \/ LoadToFloatReg
    \/ ClaimStackArea
    \/ CreateStruct
    \/ LoadFieldAtIndex
    \/ LoadUnionTagId
    \/ FreeSymbol
    \/ PushUsedCallerSavedRegsToStack

Spec == Init /\ [][Next]_vars

(***************************************************************************)
(* A procedure of scalars with arguments in registers, and the machine:    *)
(* registers and slots hold the values the emitted code leaves in them.    *)
(***************************************************************************)
InitRegs == InitOf(SymbolsOf(NumRegSyms), GeneralRegs \cup FloatRegs, Slots, "args")

NextRegs ==
    \/ Reset
    \/ GeneralRegArg
    \/ FloatRegArg
    \/ PrimitiveStackArg
    \/ RetPointerArg
    \/ ClaimGeneralReg
    \/ ClaimFloatReg
    \/ WithTmpGeneralReg
    \/ WithTmpFloatReg
    \/ LoadToGeneralReg
    \/ LoadToFloatReg
    \/ FreeSymbol
    \/ PushUsedCallerSavedRegsToStack
    \/ Call

SpecRegs == InitRegs /\ [][NextRegs]_vars

(***************************************************************************)
(* The stack arena alone: a procedure that claims stack areas and releases *)
(* them, with a deeper frame.                                              *)
(***************************************************************************)
InitArena == InitOf(SymbolsOf(NumArenaSyms), {}, {}, "arena")

NextArena ==
    \/ Reset
    \/ ClaimStackArea
    \/ FreeSymbol

SpecArena == InitArena /\ [][NextArena]_vars

(***************************************************************************)
(* A procedure with a join point: the parameters of the join point are     *)
(* given their locations, and the jumps to it move their arguments there.  *)
(***************************************************************************)
InitJoin == InitOf(SymbolsOf(NumJoinSyms), GeneralRegs \cup FloatRegs, Slots, "args")

\* the layouts of the parameters of the join points
JoinLayouts == {I64, F64}

Param(symbol, layout) == [symbol |-> symbol, borrow |-> FALSE, layout |-> layout]

\* the parameter lists of the join points: distinct symbols not yet defined
ParamLists ==
    {<<Param(x, l)>> : x \in {sym \in Symbols : Fresh(sym)}, l \in JoinLayouts}
        \cup {<<Param(x, l), Param(y, k)>> :
                 x \in {sym \in Symbols : Fresh(sym)},
                 y \in {sym \in Symbols : Fresh(sym)},
                 l \in JoinLayouts, k \in JoinLayouts}

SetupJoinpoint ==
    \E id \in JoinIds, params \in ParamLists :
        /\ join_param_map[id] = NoJoin
        /\ Len(params) = 2 => params[1].symbol # params[2].symbol
        /\ Commit(setup_joinpoint(Cur, id, params), "body")

\* the layout of an argument passed in the storage the join point expects
LayoutFor(wanted_storage) ==
    IF wanted_storage.tag = "Reg" /\ wanted_storage.reg \in FloatRegs THEN F64 ELSE I64

\* the argument lists of a jump to the join point id: live symbols, one for
\* each parameter
ArgLists(id) == [1..Len(join_param_map[id]) -> Live \ {RET_POINTER}]

ArgLayouts(id) == [i \in 1..Len(join_param_map[id]) |-> LayoutFor(join_param_map[id][i])]

SetupJump ==
    \E id \in JoinIds :
        \E args \in ArgLists(id) :
            /\ join_param_map[id] # NoJoin
            /\ Commit(setup_jump(Cur, id, args, ArgLayouts(id)), "body")

NextJoin ==
    \/ Reset
    \/ RetPointerArg
    \/ ClaimGeneralReg
    \/ ClaimFloatReg
    \/ LoadToGeneralReg
    \/ LoadToFloatReg
    \/ SetupJoinpoint
    \/ SetupJump

SpecJoin == InitJoin /\ [][NextJoin]_vars

(***************************************************************************)
(* The surgical linker (linker/src/lib.rs).                                *)
(*                                                                         *)
(* A file is its length, the fields of its ELF header that the linker     *)
(* reads, and cells: a map from file offsets to the structure that starts  *)
(* there (a program header, a section header, a dynamic entry, a symbol or *)
(* a byte of code).  Bytes that belong to no cell are zero, as they are in *)
(* a file that set_len has just created.  Copies move whole cells, at the  *)
(* offsets the code computes.                                              *)
(***************************************************************************)
PT_LOAD == 1
PT_NOTE == 4
PT_PHDR == 6
PT_GNU_STACK == 1685382481
DT_NULL == 0
DT_NEEDED == 1
MIN_FUNC_ALIGNMENT == 16
PLT_ADDRESS_OFFSET == 16

\* the tags whose value preprocess treats as an address
AddressTags ==
    {12, 13, 3, 4, 5, 6, 7, 17, 21, 23, 25, 26, 32, 34, 1879047925, 1879047926,
     1879047927, 1879047928, 1879047929, 1879047930, 1879047931, 1879047932,
     1879047933, 1879047934, 1879047935, 1879048176, 1879048188, 1879048190}

ProgramHeader(p_type, p_offset, p_vaddr, p_filesz, p_memsz, p_align) ==
    [kind |-> "ph", p_type |-> p_type, p_offset |-> p_offset, p_vaddr |-> p_vaddr,
     p_paddr |-> p_vaddr, p_filesz |-> p_filesz, p_memsz |-> p_memsz,
     p_align |-> p_align]

SectionHeader(name, sh_offset, sh_addr, sh_size) ==
    [kind |-> "sh", name |-> name, sh_offset |-> sh_offset, sh_addr |-> sh_addr,
     sh_size |-> sh_size]

Dyn(d_tag, d_val) == [kind |-> "dyn", d_tag |-> d_tag, d_val |-> d_val]

Sym(name, st_value, st_shndx, st_size) ==
    [kind |-> "sym", name |-> name, st_value |-> st_value, st_shndx |-> st_shndx,
     st_size |-> st_size]

Byte(v) == [kind |-> "byte", v |-> v]

\* mem::size_of of each structure
SizeOf == [ph |-> 56, sh |-> 64, dyn |-> 16, sym |-> 24, byte |-> 1]

\* each structure as zero bytes read
Zeroed ==
    [ph |-> ProgramHeader(0, 0, 0, 0, 0, 0), sh |-> SectionHeader("", 0, 0, 0),
     dyn |-> Dyn(0, 0), sym |-> Sym("", 0, 0, 0), byte |-> Byte(0)]

\* dst[to .. to + n) = src[from .. from + n), for slices and for ptr::copy
copy_from_slice(dst, to, src, from, n) ==
    Then(<<dst, src>>, LAMBDA b :
        LET keep == {o \in DOMAIN b[1] : o < to \/ o >= to + n}
            take == {o \in DOMAIN b[2] : from <= o /\ o < from + n}
        IN  [o \in keep \cup {o - from + to : o \in take} |->
                IF to <= o /\ o < to + n THEN b[2][o - to + from] ELSE b[1][o]])

load_struct_inplace(cells, kind, offset) ==
    IF offset \in DOMAIN cells /\ cells[offset].kind = kind
    THEN cells[offset]
    ELSE Zeroed[kind]

load_structs_inplace(cells, kind, offset, count) ==
    Then(cells, LAMBDA bytes :
        [i \in 1..count |-> load_struct_inplace(bytes, kind, offset + (i - 1) * SizeOf[kind])])

\* the structures of a load_structs_inplace_mut, written back where they lie
store_structs(cells, kind, offset, structs) ==
    Then(<<cells, structs>>, LAMBDA b :
        LET at == {offset + (i - 1) * SizeOf[kind] : i \in 1..Len(b[2])}
        IN  [o \in DOMAIN b[1] \cup at |->
                IF o \in at THEN b[2][((o - offset) \div SizeOf[kind]) + 1] ELSE b[1][o]])

aligned_offset(offset) ==
    IF offset % MIN_FUNC_ALIGNMENT = 0
    THEN offset
    ELSE offset + MIN_FUNC_ALIGNMENT - (offset % MIN_FUNC_ALIGNMENT)

\* x as i32, for every x of the model
AsI32(x) == ((((x \div 65536) + 32768) % 65536) - 32768) * 65536 + (x % 65536)

\* i32::to_le_bytes
to_le_bytes(x) ==
    <<x % 256, (x \div 256) % 256, (x \div 65536) % 256, (x \div 16777216) % 256>>

\* i32::from_le_bytes, by which the processor reads a displacement
from_le_bytes(b) ==
    b[1] + 256 * b[2] + 65536 * b[3] + 16777216 * (IF b[4] >= 128 THEN b[4] - 256 ELSE b[4])

Max(S) == CHOOSE x \in S : \A y \in S : y <= x

Range(f) == {f[x] : x \in DOMAIN f}

(***************************************************************************)
(* The files the linker is given.                                          *)
(***************************************************************************)
\* the library the host was linked against in place of the application, and
\* the functions it exports
SharedLibName == "libapp.so"

SharedLibExports == {"roc_f", "roc_g"}

\* the dynamic entries a host may have in front of its DT_NULL: two libraries
\* (d_val is the offset of the name in .dynstr), an address and a size
DynEntries == {Dyn(DT_NEEDED, 1), Dyn(DT_NEEDED, 11), Dyn(5, 66176), Dyn(10, 64)}

\* the branches a host may have in .text: the size of the operand, the length
\* of the instruction and the procedure linkage table entry it goes to
Branches ==
    {[op_size |-> 4, len |-> 5, slot |-> 2], [op_size |-> 4, len |-> 5, slot |-> 3],
     [op_size |-> 1, len |-> 2, slot |-> 2], [op_size |-> 4, len |-> 5, slot |-> 1]}

\* the byte of host code at file offset o
HostByte(o) == Byte((o * 7) % 251)

\* an executable:
\*   ph       the program headers, in order
\*   dyns     the dynamic entries in front of DT_NULL
\*   early    .dynamic lies in the first load segment
\*   relocs   the dynamic symbol each R_X86_64_JUMP_SLOT relocation names
\*   calls    the branches of .text
\*   filesz   p_filesz of the first load segment
\*   align    p_align of the load segments
\*   bss      the size of .bss, at the end of the last segment
\*   slack    bytes that follow the section header table
\*   interp   .interp follows the program header table
HostOf(p) ==
    LET n == Len(p.ph)
        base == 65536
        dyn_off == IF p.early THEN 1536 ELSE 4096
        dyn_addr == IF p.early THEN base + 1536 ELSE base + 8192
        dyn_size == 16 * (Len(p.dyns) + 2)
        header(t) ==
            CASE t = "PHDR" -> ProgramHeader(PT_PHDR, 64, base + 64, 56 * n, 56 * n, 8)
              [] t = "LOAD" -> ProgramHeader(PT_LOAD, 0, base, p.filesz, p.filesz, p.align)
              [] t = "DATA" ->
                    ProgramHeader(PT_LOAD, 4096, base + 8192, 320, 320 + p.bss, p.align)
              [] t = "DYNAMIC" -> ProgramHeader(2, dyn_off, dyn_addr, dyn_size, dyn_size, 8)
              [] t = "NOTE" -> ProgramHeader(PT_NOTE, 464, base + 464, 32, 32, 4)
              [] t = "STACK" -> ProgramHeader(PT_GNU_STACK, 0, 0, 0, 0, 16)
        program_headers == [i \in 1..n |-> header(p.ph[i])]
        dynamic == p.dyns \o <<Dyn(DT_NULL, 0), Dyn(DT_NULL, 0)>>
        dynsym == <<Sym("", 0, 0, 0), Sym("puts", 0, 0, 0), Sym("roc_f", 0, 0, 0),
                    Sym("roc_g", 0, 0, 0)>>
        symtab == <<Sym("", 0, 0, 0), Sym("main", base + 1024, 4, 32),
                    Sym("roc_alloc", base + 1056, 4, 8), Sym("counter", base + 8448, 6, 8)>>
        plt_size == 16 * (Len(p.relocs) + 1)
        section_headers ==
            <<SectionHeader("", 0, 0, 0),
              SectionHeader(".dynsym", 512, base + 512, 24 * Len(dynsym)),
              SectionHeader(".dynstr", 640, base + 640, 64),
              SectionHeader(".plt", 768, base + 768, plt_size),
              SectionHeader(".text", 1024, base + 1024, 64),
              SectionHeader(".dynamic", dyn_off, dyn_addr, dyn_size),
              SectionHeader(".data", 4352, base + 8448, 64),
              SectionHeader(".bss", 4416, base + 8512, p.bss),
              SectionHeader(".symtab", 4608, 0, 24 * Len(symtab))>>
            \o (IF p.interp
                THEN <<SectionHeader(".interp", 64 + 56 * n, base + 64 + 56 * n, 28)>>
                ELSE <<>>)
        code == (768..(768 + plt_size - 1)) \cup (1024..1087)
                    \cup (IF p.interp THEN (64 + 56 * n)..(64 + 56 * n + 27) ELSE {})
    IN  [e_phoff |-> 64, e_phentsize |-> 56, e_phnum |-> n,
         e_shoff |-> 5120, e_shentsize |-> 64, e_shnum |-> Len(section_headers),
         len |-> 5120 + 64 * Len(section_headers) + p.slack,
         cells |-> store_structs(store_structs(store_structs(store_structs(
                       store_structs([o \in code |-> HostByte(o)],
                           "ph", 64, program_headers),
                           "sym", 512, dynsym),
                           "dyn", dyn_off, dynamic),
                           "sym", 4608, symtab),
                           "sh", 5120, section_headers),
         dynstr |-> [o \in {1, 11} |-> IF o = 1 THEN SharedLibName ELSE "libc.so.6"],
         plt_relocs |-> p.relocs,
         insts |-> [i \in 1..Len(p.calls) |->
                       [next_ip |-> base + 1024 + 8 * (i - 1) + p.calls[i].len,
                        op_size |-> p.calls[i].op_size,
                        target |-> IF p.calls[i].slot = 0
                                   THEN base + 1056
                                   ELSE base + 768 + 16 * p.calls[i].slot]]]

\* a relocation of a section of the application: the offset of the site in
\* the section, the symbol it refers to, its kind, its addend and the number
\* of bits it writes
Relocation(offset, target, kind, addend, size) ==
    [offset |-> offset, target |-> target, kind |-> kind, addend |-> addend, size |-> size]

\* a section of the application: its size, the symbols it defines and its
\* relocations; its bytes are zero
Section(size, symbols, relocations) ==
    [size |-> size, symbols |-> symbols, relocations |-> relocations]

\* an application object: its data sections (.data*, .rodata*, .bss*) and its
\* text sections, in the order of the file; the symbols of an application
\* have distinct names unless it has no relocation, so that the name of a
\* symbol stands for its index
AppOf(rodata, text) == [rodata |-> rodata, text |-> text]

(***************************************************************************)
(* preprocess: the host is read, the calls to the application are          *)
(* recorded, and a copy with room for one more load segment is written.    *)
(***************************************************************************)
section_by_name(exec, name) ==
    Then(load_structs_inplace(exec.cells, "sh", exec.e_shoff, exec.e_shnum),
         LAMBDA section_headers :
            section_headers[CHOOSE i \in 1..exec.e_shnum : section_headers[i].name = name])

\* Metadata::default()
DefaultMetadata ==
    [app_functions |-> <<>>, plt_addresses |-> <<>>, surgeries |-> <<>>,
     dynamic_symbol_indices |-> <<>>, dynamic_section_offset |-> 0,
     dynamic_lib_count |-> 0, shared_lib_index |-> 0,
     symbol_table_section_offset |-> 0, symbol_table_size |-> 0,
     dynamic_symbol_table_section_offset |-> 0, load_align_constraint |-> 0,
     shift_start |-> 0, shift_end |-> 0, added_data |-> 0,
     first_load_aligned_size |-> 0, exec_len |-> 0, last_vaddr |-> 0,
     roc_func_addresses |-> <<>>]

\* the index of the last element of a sequence that satisfies Test
LastThat(seq, Test(_)) == Max({i \in 1..Len(seq) : Test(seq[i])})

\* the names of the model that start with "roc_"
RocNames == {"roc_alloc", "roc_dealloc", "roc_memcpy", "roc_memset", "roc_f", "roc_g"}

\* the addresses of the functions that the host defines for the application:
\* every defined symbol of the host whose name starts with "roc_", and
\* roc_memcpy and roc_memset under the names memcpy and memset as well
roc_func_addresses(exec) ==
    Then(section_by_name(exec, ".symtab"), LAMBDA symtab :
        Then(load_structs_inplace(exec.cells, "sym", symtab.sh_offset,
                                  symtab.sh_size \div SizeOf["sym"]),
             LAMBDA symbols :
                LET published(sym) ==
                        IF sym.st_shndx = 0 \/ sym.name \notin RocNames THEN {}
                        ELSE IF sym.name = "roc_memcpy" THEN {"memcpy", sym.name}
                        ELSE IF sym.name = "roc_memset" THEN {"memset", sym.name}
                        ELSE {sym.name}
                    names == UNION {published(symbols[i]) : i \in 1..Len(symbols)}
                IN  [name \in names |->
                        symbols[LastThat(symbols, LAMBDA sym : name \in published(sym))]
                            .st_value]))

\* the dynamic symbols of the host that the shared library exports: the name
\* and the index of each, in the order of the table
app_syms(exec) ==
    Then(section_by_name(exec, ".dynsym"), LAMBDA dynsym :
        Then(load_structs_inplace(exec.cells, "sym", dynsym.sh_offset,
                                  dynsym.sh_size \div SizeOf["sym"]),
             LAMBDA dynamic_symbols :
                SelectSeq([i \in 1..Len(dynamic_symbols) |->
                              [name |-> dynamic_symbols[i].name, index |-> i - 1]],
                          LAMBDA sym : sym.name \in SharedLibExports)))

\* the application functions the host imports, their entries in the procedure
\* linkage table and the branches of .text that go to them
preprocess_calls(exec) ==
    Then(<<section_by_name(exec, ".plt"), section_by_name(exec, ".text"), app_syms(exec)>>,
         LAMBDA o :
            LET plt == o[1]
                text == o[2]
                names == {o[3][k].name : k \in 1..Len(o[3])}
                symbol_index(name) == o[3][CHOOSE k \in 1..Len(o[3]) : o[3][k].name = name].index
                called == {name \in names : symbol_index(name) \in Range(exec.plt_relocs)}
                slot(name) ==
                    LastThat(exec.plt_relocs, LAMBDA target : target = symbol_index(name))
                func_address(name) == slot(name) * PLT_ADDRESS_OFFSET + plt.sh_addr
                entry(inst) ==
                    [file_offset |-> inst.next_ip - inst.op_size - text.sh_addr + text.sh_offset,
                     virtual_offset |-> inst.next_ip, size |-> inst.op_size]
                branches(name) ==
                    SelectSeq(exec.insts, LAMBDA inst : inst.target = func_address(name))
            IN  [DefaultMetadata EXCEPT
                    !.app_functions = [k \in 1..Len(o[3]) |-> o[3][k].name],
                    !.dynamic_symbol_indices = [name \in names |-> symbol_index(name)],
                    !.plt_addresses =
                        [name \in called |->
                            <<slot(name) * PLT_ADDRESS_OFFSET + plt.sh_offset,
                              func_address(name)>>],
                    !.surgeries =
                        [name \in names |->
                            IF name \in called
                            THEN Then(branches(name), LAMBDA found :
                                    [k \in 1..Len(found) |-> entry(found[k])])
                            ELSE <<>>]])

\* the scan of the dynamic table
preprocess_dynamic(exec) ==
    Then(section_by_name(exec, ".dynamic").sh_offset, LAMBDA dyn_offset :
        LET dyn_tag(i) == load_struct_inplace(exec.cells, "dyn", dyn_offset + i * 16).d_tag
            dynstr_off(i) == load_struct_inplace(exec.cells, "dyn", dyn_offset + i * 16).d_val
            c_str(i) ==
                IF dynstr_off(i) \in DOMAIN exec.dynstr THEN exec.dynstr[dynstr_off(i)] ELSE ""
        IN  Then(CHOOSE i \in 0..Cardinality(DOMAIN exec.cells) :
                    dyn_tag(i) = 0 /\ \A j \in 0..(i - 1) : dyn_tag(j) # 0,
                 LAMBDA dyn_lib_index :
                    Then({i \in 0..(dyn_lib_index - 1) :
                            dyn_tag(i) = 1 /\ c_str(i) = SharedLibName},
                         LAMBDA found :
                            [shared_lib_found |-> found # {},
                             shared_lib_index |-> IF found = {} THEN 0 ELSE Max(found),
                             dynamic_lib_count |-> dyn_lib_index,
                             dynamic_section_offset |-> dyn_offset])))

\* a command that returns code with the output file and the metadata as they
\* are; a command that panics ends with the exit code 101
Ok(code, out, m) == [status |-> code, out |-> out, md |-> m]

\* preprocess_note that moves only the program headers of the table
preprocess_note_Within(exec, out, m, i) ==
    LET ph_end == exec.e_phoff + exec.e_phnum * exec.e_phentsize
        notes_offset == exec.e_phoff + exec.e_phentsize * i
        deleted == copy_from_slice(out.cells, notes_offset, out.cells,
                                   notes_offset + exec.e_phentsize,
                                   (exec.e_phnum - i - 1) * exec.e_phentsize)
    IN  Ok(0, [out EXCEPT !.cells = copy_from_slice(deleted, ph_end, exec.cells, ph_end,
                                                    exec.len - ph_end)], m)

\* the host has a PT_NOTE program header: it is deleted, which leaves a null
\* entry at the end of the table
preprocess_note(exec, out, m, i) ==
    LET ph_end == exec.e_phoff + exec.e_phnum * exec.e_phentsize
        notes_offset == exec.e_phoff + exec.e_phentsize * i
        deleted == copy_from_slice(out.cells, notes_offset, out.cells,
                                   notes_offset + exec.e_phentsize,
                                   (exec.e_phnum - i) * exec.e_phentsize)
    IN  Ok(0, [out EXCEPT !.cells = copy_from_slice(deleted, ph_end, exec.cells, ph_end,
                                                    exec.len - ph_end)], m)

\* the headers of the second loop of the fallback, up to the first that cannot
\* be moved
ShiftSegments(headers, m) ==
    LET moves(ph) == m.shift_start <= ph.p_vaddr /\ ph.p_vaddr < m.shift_end
    IN  Then({i \in 1..Len(headers) :
                /\ moves(headers[i])
                /\ \/ headers[i].p_align = 0
                   \/ (headers[i].p_offset + m.added_data) % headers[i].p_align # 0
                   \/ (headers[i].p_vaddr + m.added_data) % headers[i].p_align # 0},
             LAMBDA stuck :
                Then(IF stuck = {} THEN Len(headers) + 1 ELSE Min(stuck),
                     LAMBDA first :
                        [status |-> IF stuck = {} THEN 0
                                    ELSE IF headers[first].p_align = 0 THEN 101 ELSE -1,
                         headers |-> [i \in 1..Len(headers) |->
                                        IF i < first /\ moves(headers[i])
                                        THEN [headers[i] EXCEPT !.p_offset = @ + m.added_data,
                                                                !.p_vaddr = @ + m.added_data,
                                                                !.p_paddr = @ + m.added_data]
                                        ELSE headers[i]]]))

\* the first loop of the fallback over the program headers: the sizes of the
\* PT_PHDR it meets and of the first load segment grow, unless the segment has
\* no room (stop)
GrowSegments(program_headers, k, added_data, stop) ==
    [i \in 1..Len(program_headers) |->
        IF (i < k /\ program_headers[i].p_type = PT_PHDR) \/ (i = k /\ ~stop)
        THEN [program_headers[i] EXCEPT !.p_filesz = @ + added_data,
                                        !.p_memsz = @ + added_data]
        ELSE program_headers[i]]

\* what the fallback does once the first load segment, the k-th program
\* header, is known to have room
preprocess_shift(exec, out, m1, program_headers, k) ==
    LET ph_end == exec.e_phoff + exec.e_phnum * exec.e_phentsize
        out1(headers) == [out EXCEPT !.e_phnum = exec.e_phnum + 1,
                                     !.cells = store_structs(@, "ph", exec.e_phoff, headers)]
        overlaps(sh) ==
            /\ sh.sh_offset <= m1.first_load_aligned_size - m1.added_data
            /\ sh.sh_offset + sh.sh_size >= m1.first_load_aligned_size - m1.added_data
    IN  Then(<<ShiftSegments(GrowSegments(program_headers, k, m1.added_data, FALSE), m1),
               load_structs_inplace(exec.cells, "sh", exec.e_shoff, exec.e_shnum)>>,
             LAMBDA o :
                Then(out1(o[1].headers), LAMBDA out2 :
                    IF o[1].status # 0 THEN Ok(o[1].status, out2, m1)
                    ELSE IF \E i \in 1..exec.e_shnum : overlaps(o[2][i])
                    THEN Ok(-1, out2, m1)
                    ELSE IF m1.first_load_aligned_size > exec.len
                            \/ ph_end + m1.added_data > m1.first_load_aligned_size
                    THEN Ok(101, out2, m1)
                    ELSE Ok(0,
                            [out2 EXCEPT !.cells =
                                copy_from_slice(
                                    copy_from_slice(@, ph_end + m1.added_data, exec.cells, ph_end,
                                        m1.first_load_aligned_size - m1.added_data - ph_end),
                                    m1.first_load_aligned_size, exec.cells,
                                    m1.first_load_aligned_size,
                                    exec.len - m1.first_load_aligned_size)],
                            m1)))

\* the host has no PT_NOTE program header: a program header is added, and what
\* the first load segment holds after the table moves into its padding
preprocess_padding(exec, out, m) ==
    LET ph_end == exec.e_phoff + exec.e_phnum * exec.e_phentsize
        added_data == exec.e_phentsize
        first_load(ph) == ph.p_type = PT_LOAD /\ ph.p_offset = 0
        stopped(headers) ==
            [out EXCEPT !.e_phnum = exec.e_phnum + 1,
                        !.cells = store_structs(@, "ph", exec.e_phoff, headers)]
    IN  Then(load_structs_inplace(out.cells, "ph", exec.e_phoff, exec.e_phnum + 1),
             LAMBDA program_headers :
                Then(Min({i \in 1..(exec.e_phnum + 1) : first_load(program_headers[i])}),
                     LAMBDA k :
                        LET load == program_headers[k]
                            new_memsz == load.p_memsz + added_data
                            align_remainder == new_memsz % load.p_align
                            first_load_aligned_size ==
                                IF align_remainder = 0
                                THEN new_memsz
                                ELSE new_memsz + (load.p_align - align_remainder)
                        IN  IF load.p_align = 0
                            THEN Ok(101, stopped(GrowSegments(program_headers, k, added_data, TRUE)),
                                    [m EXCEPT !.added_data = added_data])
                            ELSE IF load.p_filesz \div load.p_align
                                        # (load.p_filesz + added_data) \div load.p_align
                            THEN Ok(-1, stopped(GrowSegments(program_headers, k, added_data, TRUE)),
                                    [m EXCEPT !.added_data = added_data])
                            ELSE Then([m EXCEPT
                                          !.added_data = added_data,
                                          !.shift_start = load.p_vaddr + ph_end,
                                          !.first_load_aligned_size = first_load_aligned_size,
                                          !.shift_end = load.p_vaddr + first_load_aligned_size],
                                      LAMBDA m1 :
                                         preprocess_shift(exec, out, m1, program_headers, k))))

\* preprocess_tables that deletes the entry without moving the DT_NULL
preprocess_tables_Unended(r, ph_end) ==
    LET m == r.md
        dyn_offset == IF ph_end <= m.dynamic_section_offset
                         /\ m.dynamic_section_offset < m.first_load_aligned_size
                      THEN m.dynamic_section_offset + m.added_data
                      ELSE m.dynamic_section_offset
    IN  Ok(0,
           [r.out EXCEPT !.cells =
               copy_from_slice(@, dyn_offset + 16 * m.shared_lib_index, @,
                               dyn_offset + 16 * (m.shared_lib_index + 1),
                               16 * (m.dynamic_lib_count - m.shared_lib_index - 1))],
           m)

\* the dynamic entries and the symbols are moved to the addresses of the
\* copy, and the entry of the shared library is deleted
preprocess_tables(r, ph_end) ==
    LET m == r.md
        in_padding(offset) == ph_end <= offset /\ offset < m.first_load_aligned_size
        moved(addr) ==
            IF m.shift_start <= addr /\ addr < m.shift_end THEN addr + m.added_data ELSE addr
        dyn_offset == IF in_padding(m.dynamic_section_offset)
                      THEN m.dynamic_section_offset + m.added_data
                      ELSE m.dynamic_section_offset
        symtab_offset == IF in_padding(m.symbol_table_section_offset)
                         THEN m.symbol_table_section_offset + m.added_data
                         ELSE m.symbol_table_section_offset
    IN  Then(load_structs_inplace(r.out.cells, "dyn", dyn_offset, m.dynamic_lib_count),
             LAMBDA dyns :
                Then(store_structs(r.out.cells, "dyn", dyn_offset,
                        [i \in 1..Len(dyns) |->
                            IF dyns[i].d_tag \in AddressTags
                            THEN [dyns[i] EXCEPT !.d_val = moved(@)]
                            ELSE dyns[i]]),
                     LAMBDA cells1 :
                        Then(copy_from_slice(cells1, dyn_offset + 16 * m.shared_lib_index, cells1,
                                             dyn_offset + 16 * (m.shared_lib_index + 1),
                                             16 * (m.dynamic_lib_count - m.shared_lib_index)),
                             LAMBDA cells2 :
                                Then(load_structs_inplace(cells2, "sym", symtab_offset,
                                                          m.symbol_table_size \div SizeOf["sym"]),
                                     LAMBDA symbols :
                                        Ok(0,
                                           [r.out EXCEPT !.cells =
                                               store_structs(cells2, "sym", symtab_offset,
                                                   [i \in 1..Len(symbols) |->
                                                       [symbols[i] EXCEPT
                                                           !.st_value = moved(@)]])],
                                           m)))))

\* no file has been written
NoFile == [kind |-> "nofile"]

\* preprocess once the shared library is found among the dynamic entries:
\* the program headers are read, and the copy is written by one of the two
\* paths
preprocess_segments(exec, m0) ==
    LET ph_end == exec.e_phoff + exec.e_phnum * exec.e_phentsize
    IN  Then(<<load_structs_inplace(exec.cells, "ph", exec.e_phoff, exec.e_phnum),
               load_structs_inplace(exec.cells, "sh", exec.e_shoff, exec.e_shnum),
               section_by_name(exec, ".symtab"), section_by_name(exec, ".dynsym"),
               [e_phoff |-> exec.e_phoff, e_phentsize |-> exec.e_phentsize,
                e_phnum |-> exec.e_phnum, e_shoff |-> exec.e_shoff,
                e_shentsize |-> exec.e_shentsize, e_shnum |-> exec.e_shnum,
                len |-> exec.len,
                cells |-> copy_from_slice(<<>>, 0, exec.cells, 0, ph_end)]>>,
             LAMBDA o :
                LET program_headers == o[1]
                    section_headers == o[2]
                    out == o[5]
                    notes == {i \in 1..exec.e_phnum : program_headers[i].p_type = PT_NOTE}
                    loads == {i \in 1..exec.e_phnum :
                                program_headers[i].p_type = PT_LOAD
                                /\ program_headers[i].p_offset = 0}
                    load_align_constraint == program_headers[Max(loads)].p_align
                    last_segment_vaddr ==
                        Max({program_headers[i].p_vaddr + program_headers[i].p_memsz :
                                i \in {j \in 1..exec.e_phnum :
                                          program_headers[j].p_type # PT_GNU_STACK}})
                    last_section_vaddr ==
                        Max({section_headers[i].sh_addr + section_headers[i].sh_size :
                                i \in 1..exec.e_shnum})
                    m1 == [m0 EXCEPT
                              !.symbol_table_section_offset = o[3].sh_offset,
                              !.symbol_table_size = o[3].sh_size,
                              !.dynamic_symbol_table_section_offset = o[4].sh_offset,
                              !.exec_len = exec.len]
                IN  IF loads = {} THEN Ok(-1, out, m1)
                    ELSE Then([m1 EXCEPT
                                  !.load_align_constraint = load_align_constraint,
                                  !.last_vaddr = Max({last_section_vaddr, last_segment_vaddr})
                                                     + load_align_constraint],
                              LAMBDA m2 :
                                 Then(IF notes # {}
                                      THEN preprocess_note(exec, out, m2, Max(notes) - 1)
                                      ELSE preprocess_padding(exec, out, m2),
                                      LAMBDA r : IF r.status = 0
                                                 THEN preprocess_tables(r, ph_end)
                                                 ELSE r)))

preprocess(exec) ==
    Then(<<preprocess_dynamic(exec), preprocess_calls(exec), roc_func_addresses(exec)>>,
         LAMBDA scan :
            Then([scan[2] EXCEPT
                     !.roc_func_addresses = scan[3],
                     !.dynamic_section_offset = scan[1].dynamic_section_offset,
                     !.dynamic_lib_count = scan[1].dynamic_lib_count,
                     !.shared_lib_index = scan[1].shared_lib_index],
                 LAMBDA m0 :
                    IF ~scan[1].shared_lib_found THEN Ok(-1, NoFile, m0)
                    ELSE preprocess_segments(exec, m0)))

(***************************************************************************)
(* surgery: the application is appended as a new load segment, and the     *)
(* calls of the host are redirected to it.                                 *)
(***************************************************************************)
new_segment_offset(m) == aligned_offset(m.exec_len)

\* new_segment_vaddr that only ever adds the difference of the remainders
new_segment_vaddr_Short(m) ==
    m.last_vaddr + (new_segment_offset(m) % m.load_align_constraint)
        - (m.last_vaddr % m.load_align_constraint)

new_segment_vaddr(m) ==
    LET remainder == new_segment_offset(m) % m.load_align_constraint
        vremainder == m.last_vaddr % m.load_align_constraint
    IN  IF remainder > vremainder THEN m.last_vaddr + (remainder - vremainder)
        ELSE IF vremainder > remainder
        THEN m.last_vaddr + ((remainder + m.load_align_constraint) - vremainder)
        ELSE m.last_vaddr

\* the file offset at which each section of a list is copied, and the offset
\* that follows the last
RECURSIVE Place(_, _)
Place(sizes, offset) ==
    IF sizes = <<>> THEN <<offset>>
    ELSE <<aligned_offset(offset)>> \o Place(Tail(sizes), aligned_offset(offset) + Head(sizes))

\* the file offsets at which the data sections of the application are copied
DataOffsets(m, app) ==
    Place([i \in 1..Len(app.rodata) |-> app.rodata[i].size], new_segment_offset(m))

\* where the text sections of the application start
new_text_section_offset(m, app) ==
    LET placed == DataOffsets(m, app) IN placed[Len(placed)]

\* the entries of the global offset table that follows a text section: one
\* for each of its GotRelative relocations
GotEntries(sec) ==
    Cardinality({j \in 1..Len(sec.relocations) : sec.relocations[j].kind = "GotRelative"})

\* the text sections are separated by the space of their global offset
\* tables, which starts on a function boundary
TextOffsets(m, app) ==
    Place([i \in 1..Len(app.text) |->
              aligned_offset(app.text[i].size) + 8 * GotEntries(app.text[i])],
          new_text_section_offset(m, app))

app_func_segment_offset_map(m, app) ==
    LET at == TextOffsets(m, app)
        defines(i, name) == \E k \in 1..Len(app.text[i].symbols) : app.text[i].symbols[k].name = name
        defined == {name \in Range(m.app_functions) : \E i \in 1..Len(app.text) : defines(i, name)}
        sec(name) == Max({i \in 1..Len(app.text) : defines(i, name)})
        sym(name) == app.text[sec(name)].symbols[
                        LastThat(app.text[sec(name)].symbols, LAMBDA s : s.name = name)]
    IN  [name \in defined |->
            [offset |-> at[sec(name)] + sym(name).address - new_segment_offset(m),
             size |-> sym(name).size]]

\* the address at which the application function name is loaded
virt_offset(m, app, name) == new_segment_vaddr(m) + app_func_segment_offset_map(m, app)[name].offset

write_bytes(cells, offset, data) ==
    store_structs(cells, "byte", offset, [i \in 1..Len(data) |-> Byte(data[i])])

\* surgery_calls that counts the displacement from the operand of the branch
surgery_calls_FromOperand(cells, sites, virt) ==
    LET RECURSIVE Patched(_)
        Patched(k) ==
            IF k = 0 THEN cells
            ELSE write_bytes(Patched(k - 1), sites[k].file_offset,
                             to_le_bytes(AsI32(virt - (sites[k].virtual_offset - sites[k].size))))
    IN  [status |-> 0, cells |-> Patched(Len(sites))]

\* the calls to one function are given their new displacement, up to the
\* first whose operand is not of four bytes
surgery_calls(cells, sites, virt) ==
    LET bad == {k \in 1..Len(sites) : sites[k].size # 4}
        stop == IF bad = {} THEN Len(sites) + 1 ELSE CHOOSE k \in bad : \A j \in bad : k <= j
        RECURSIVE Patched(_)
        Patched(k) ==
            IF k = 0 THEN cells
            ELSE write_bytes(Patched(k - 1), sites[k].file_offset,
                             to_le_bytes(AsI32(virt - sites[k].virtual_offset)))
    IN  [status |-> IF bad = {} THEN 0 ELSE -1, cells |-> Patched(stop - 1)]

\* surgery_plt that counts the displacement from the start of the entry
surgery_plt_FromEntry(cells, plt_off, plt_vaddr, virt) ==
    write_bytes(cells, plt_off,
        <<233>> \o to_le_bytes(AsI32(virt - plt_vaddr)) \o [i \in 1..11 |-> 144])

\* the entry of the procedure linkage table becomes a jump to the function
surgery_plt(cells, plt_off, plt_vaddr, virt) ==
    LET jmp_inst_len == 5
        target == AsI32(virt - (plt_vaddr + jmp_inst_len))
    IN  write_bytes(cells, plt_off,
            <<233>> \o to_le_bytes(target)
                \o [i \in 1..(PLT_ADDRESS_OFFSET - jmp_inst_len) |-> 144])

\* i64::to_le_bytes, for every x of the model
to_le_bytes64(x) == to_le_bytes(x) \o [i \in 1..4 |-> IF x < 0 THEN 255 ELSE 0]

\* symbol_offset_map once the data sections and the first n text sections are
\* copied: the offset in the new segment of every symbol they define
symbol_offset_map(m, app, n) ==
    Then([i \in 1..(Len(app.rodata) + n) |->
             IF i <= Len(app.rodata)
             THEN [at |-> DataOffsets(m, app)[i], symbols |-> app.rodata[i].symbols]
             ELSE [at |-> TextOffsets(m, app)[i - Len(app.rodata)],
                   symbols |-> app.text[i - Len(app.rodata)].symbols]],
         LAMBDA copied :
            LET defines(i, name) ==
                    \E k \in 1..Len(copied[i].symbols) : copied[i].symbols[k].name = name
                names == UNION {{copied[i].symbols[k].name : k \in 1..Len(copied[i].symbols)} :
                                  i \in 1..Len(copied)}
                sec(name) == copied[Max({i \in 1..Len(copied) : defines(i, name)})]
                sym(name) == sec(name).symbols[
                                LastThat(sec(name).symbols, LAMBDA s : s.name = name)]
            IN  [name \in names |->
                    sec(name).at + sym(name).address - new_segment_offset(m)])

\* the relocations of the text sections, from the j-th relocation of the i-th
\* section on, with got entries already in the global offset table of the
\* section; overflow_checks: the build panics on an overflow
RECURSIVE surgery_relocations(_, _, _, _, _, _, _)
surgery_relocations(cells, m, app, overflow_checks, i, j, got) ==
    IF i > Len(app.text) THEN [status |-> 0, cells |-> cells]
    ELSE IF j > Len(app.text[i].relocations)
    THEN surgery_relocations(cells, m, app, overflow_checks, i + 1, 1, 0)
    ELSE Then(<<symbol_offset_map(m, app, i), TextOffsets(m, app)[i], app.text[i].relocations[j]>>,
              LAMBDA o :
                 LET rel == o[3]
                     offset == o[2]
                     current_section_offset == offset - new_segment_offset(m)
                     target_offset ==
                         IF rel.target \in DOMAIN o[1] THEN o[1][rel.target]
                         ELSE m.roc_func_addresses[rel.target] - new_segment_vaddr(m)
                     got_offset == aligned_offset(offset + app.text[i].size) + 8 * got
                     target ==
                         CASE rel.kind \in {"Relative", "PltRelative"} ->
                                 target_offset - (rel.offset + current_section_offset) + rel.addend
                           [] rel.kind = "GotRelative" ->
                                 (got_offset - new_segment_offset(m))
                                     - (rel.offset + current_section_offset) + rel.addend
                           [] rel.kind = "Absolute" -> target_offset + new_segment_vaddr(m)
                     with_got ==
                         IF rel.kind = "GotRelative"
                         THEN write_bytes(cells, got_offset,
                                          to_le_bytes64(target_offset + new_segment_vaddr(m)))
                         ELSE cells
                 IN  IF rel.target \notin DOMAIN o[1] \cup DOMAIN m.roc_func_addresses
                     THEN [status |-> -1, cells |-> cells]
                     ELSE IF overflow_checks /\ target_offset < 0
                     THEN [status |-> 101, cells |-> cells]
                     ELSE IF rel.kind \notin {"Relative", "PltRelative", "GotRelative", "Absolute"}
                     THEN [status |-> -1, cells |-> cells]
                     ELSE IF rel.size \notin {32, 64}
                     THEN [status |-> -1, cells |-> with_got]
                     ELSE Then(write_bytes(with_got, offset + rel.offset,
                                           IF rel.size = 32 THEN to_le_bytes(AsI32(target))
                                           ELSE to_le_bytes64(target)),
                               LAMBDA written :
                                  surgery_relocations(written, m, app, overflow_checks, i, j + 1,
                                      IF rel.kind = "GotRelative" THEN got + 1 ELSE got)))

\* the loop of surgery over md.app_functions, from the k-th function on
RECURSIVE surgery_functions(_, _, _, _, _, _)
surgery_functions(cells, m, app, dynsym_offset, new_text_section_index, k) ==
    IF k > Len(m.app_functions) THEN [status |-> 0, cells |-> cells]
    ELSE LET func_name == m.app_functions[k]
             sites == IF func_name \in DOMAIN m.surgeries THEN m.surgeries[func_name] ELSE <<>>
             at == dynsym_offset + m.dynamic_symbol_indices[func_name] * SizeOf["sym"]
         IN  Then(app_func_segment_offset_map(m, app), LAMBDA map :
                IF func_name \notin DOMAIN map THEN [status |-> -1, cells |-> cells]
                ELSE Then(<<virt_offset(m, app, func_name), sites>>, LAMBDA o :
                        Then(surgery_calls(cells, o[2], o[1]), LAMBDA calls :
                            IF calls.status # 0 THEN calls
                            ELSE Then(IF func_name \in DOMAIN m.plt_addresses
                                      THEN surgery_plt(calls.cells, m.plt_addresses[func_name][1],
                                                       m.plt_addresses[func_name][2], o[1])
                                      ELSE calls.cells,
                                      LAMBDA cells1 :
                                         Then(IF func_name \in DOMAIN m.dynamic_symbol_indices
                                              THEN store_structs(cells1, "sym", at,
                                                      <<[load_struct_inplace(cells1, "sym", at) EXCEPT
                                                           !.st_shndx = new_text_section_index,
                                                           !.st_value = o[1],
                                                           !.st_size = map[func_name].size]>>)
                                              ELSE cells1,
                                              LAMBDA cells2 :
                                                 surgery_functions(cells2, m, app, dynsym_offset,
                                                                   new_text_section_index,
                                                                   k + 1))))))

surgery(exec, m, app, overflow_checks) ==
    LET ph_end == exec.e_phoff + exec.e_phnum * exec.e_phentsize
        sh_size == exec.e_shentsize * exec.e_shnum
        text_end == LET placed == TextOffsets(m, app) IN placed[Len(placed)]
        new_sh_offset == aligned_offset(text_end)
        new_section_count == 2
        sh_num == exec.e_shnum + new_section_count
        moved(section_headers) ==
            [i \in 1..sh_num |->
                [section_headers[i] EXCEPT
                    !.sh_offset = IF ph_end <= @ /\ @ < m.first_load_aligned_size
                                  THEN @ + m.added_data ELSE @,
                    !.sh_addr = IF m.shift_start <= @ /\ @ < m.shift_end
                                THEN @ + m.added_data ELSE @]]
        new_data_section_size == new_text_section_offset(m, app) - new_segment_offset(m)
        new_text_section_vaddr == new_segment_vaddr(m) + new_data_section_size
        with_sections(copied) ==
            store_structs(copied, "sh", new_sh_offset,
                [moved(load_structs_inplace(copied, "sh", new_sh_offset, sh_num)) EXCEPT
                    ![sh_num - 1] = SectionHeader("", new_segment_offset(m),
                                                  new_segment_vaddr(m), new_data_section_size),
                    ![sh_num] = SectionHeader("", new_text_section_offset(m, app),
                                              new_text_section_vaddr,
                                              new_sh_offset - new_text_section_offset(m, app))])
        new_segment == ProgramHeader(PT_LOAD, new_segment_offset(m), new_segment_vaddr(m),
                                     new_sh_offset - new_segment_offset(m),
                                     new_sh_offset - new_segment_offset(m),
                                     m.load_align_constraint)
        with_segment(sections) ==
            store_structs(sections, "ph",
                          exec.e_phoff + (exec.e_phnum - 1) * exec.e_phentsize, <<new_segment>>)
        dynsym_offset ==
            IF ph_end <= m.dynamic_symbol_table_section_offset
               /\ m.dynamic_symbol_table_section_offset < m.first_load_aligned_size
            THEN m.dynamic_symbol_table_section_offset + m.added_data
            ELSE m.dynamic_symbol_table_section_offset
        out == [exec EXCEPT !.e_shoff = new_sh_offset, !.e_shnum = sh_num,
                            !.len = new_sh_offset + sh_size
                                      + new_section_count * exec.e_shentsize + 1]
    IN  IF m.load_align_constraint = 0 THEN Ok(101, exec, m)
        ELSE IF app.text = <<>> THEN Ok(-1, exec, m)
        ELSE Then(surgery_relocations(exec.cells, m, app, overflow_checks, 1, 1, 0),
                  LAMBDA relocated :
                     IF relocated.status # 0
                     THEN Ok(relocated.status, [exec EXCEPT !.cells = relocated.cells], m)
                     ELSE Then(copy_from_slice(relocated.cells, new_sh_offset, relocated.cells,
                                               exec.e_shoff, sh_size),
                               LAMBDA copied :
                                  Then(with_sections(copied), LAMBDA sections :
                                     Then(<<with_segment(sections), dynsym_offset, sh_num - 1>>,
                                          LAMBDA o :
                                             Then(surgery_functions(o[1], m, app, o[2], o[3], 1),
                                                  LAMBDA r :
                                                     Ok(r.status,
                                                        [out EXCEPT !.cells = r.cells], m))))))

(***************************************************************************)
(* The linker as it is run: preprocess on a host, then surgery on its      *)
(* output with an application.                                             *)
(***************************************************************************)
\* the sequences over S of lo to hi elements
SeqsOf(S, lo, hi) == UNION {[1..n -> S] : n \in lo..hi}

\* the orders in which the program headers of a host come
PhShapes ==
    {<<"PHDR", "LOAD", "DATA", "DYNAMIC", "NOTE", "STACK">>,
     <<"PHDR", "LOAD", "NOTE", "DATA", "DYNAMIC", "STACK">>,
     <<"NOTE", "PHDR", "LOAD", "DATA", "NOTE", "DYNAMIC", "STACK">>,
     <<"PHDR", "LOAD", "DATA", "DYNAMIC", "STACK">>,
     <<"LOAD", "PHDR", "DATA", "DYNAMIC", "STACK">>,
     <<"PHDR", "DATA", "DYNAMIC", "NOTE", "STACK">>}

\* a host with a note to steal, and one linked within its padding
Plain ==
    [ph |-> <<"PHDR", "LOAD", "DATA", "DYNAMIC", "NOTE", "STACK">>,
     dyns |-> <<Dyn(DT_NEEDED, 11), Dyn(DT_NEEDED, 1), Dyn(5, 66176)>>,
     early |-> FALSE, relocs |-> <<1, 2, 3>>,
     calls |-> <<[op_size |-> 4, len |-> 5, slot |-> 2], [op_size |-> 4, len |-> 5, slot |-> 3]>>,
     filesz |-> 1792, align |-> 4096, bss |-> 0, slack |-> 0, interp |-> FALSE]

Padded == [Plain EXCEPT !.ph = <<"PHDR", "LOAD", "DATA", "DYNAMIC", "STACK">>]

Hosts ==
    {HostOf([Plain EXCEPT !.ph = ph, !.dyns = dyns, !.early = early]) :
        ph \in PhShapes, dyns \in SeqsOf(DynEntries, 1, MaxDyns), early \in BOOLEAN}
    \cup {HostOf([p EXCEPT !.calls = calls, !.relocs = relocs]) :
            p \in {Plain, Padded}, calls \in SeqsOf(Branches, 0, MaxCalls),
            relocs \in {<<1, 2, 3>>, <<3, 1>>}}
    \cup {HostOf([p EXCEPT !.filesz = filesz, !.align = align, !.bss = 8 * bss, !.slack = slack]) :
            p \in {Plain, Padded}, filesz \in {1792, 4064}, align \in {1, 24, 2048, 4096},
            bss \in {0, 3, 160, 161, 320}, slack \in 0..MaxSlack}
    \cup {HostOf([Padded EXCEPT !.ph = ph, !.filesz = filesz, !.align = align,
                                !.interp = interp]) :
            ph \in {Padded.ph, <<"LOAD", "PHDR", "DATA", "DYNAMIC", "STACK">>},
            filesz \in {1736, 1992, 2048, 4040, 4096}, align \in {8, 2048, 4096},
            interp \in BOOLEAN}

AppSymbol(name, address, size) == [name |-> name, address |-> address, size |-> size]

TextSection(size, symbols) == Section(size, symbols, <<>>)

DataSection(size) == Section(size, <<>>, <<>>)

PlainApp ==
    AppOf(<<DataSection(40)>>, <<TextSection(48, <<AppSymbol("roc_f", 0, 16), AppSymbol("roc_g", 16, 20),
                                      AppSymbol("helper", 36, 12)>>)>>)

\* the relocations an application may have
Relocations ==
    {Relocation(4, "helper", "PltRelative", -4, 32), Relocation(4, "msg", "Relative", -4, 32),
     Relocation(4, "roc_alloc", "PltRelative", -4, 32), Relocation(4, "missing", "Relative", 0, 32),
     Relocation(4, "msg", "GotRelative", -4, 32), Relocation(4, "helper", "Absolute", 0, 64),
     Relocation(4, "msg", "Other", 0, 32), Relocation(4, "msg", "GotRelative", 0, 16)}

\* applications with relocations: a data section that defines msg and holds
\* a pointer or none, and two text sections, one that defines helper and one
\* that defines roc_f and roc_g, in either order, of which roc_f has one or
\* two relocations and helper one or none
RelocApps ==
    {AppOf(<<Section(24, <<AppSymbol("msg", 8, 12)>>, data_relocations)>>,
           IF helper_first
           THEN <<Section(16, <<AppSymbol("helper", 0, 16)>>, helper_relocations),
                  Section(40, <<AppSymbol("roc_f", 0, 20), AppSymbol("roc_g", 24, 16)>>,
                          relocations)>>
           ELSE <<Section(40, <<AppSymbol("roc_f", 0, 20), AppSymbol("roc_g", 24, 16)>>,
                          relocations),
                  Section(16, <<AppSymbol("helper", 0, 16)>>, helper_relocations)>>) :
        helper_first \in BOOLEAN,
        data_relocations \in {<<>>, <<Relocation(16, "roc_f", "Absolute", 0, 64)>>},
        helper_relocations \in {<<>>, <<Relocation(8, "roc_g", "PltRelative", -4, 32)>>},
        relocations \in
            {<<r>> : r \in Relocations}
            \cup {<<Relocation(4, "msg", "GotRelative", -4, 32), [r EXCEPT !.offset = 12]>> :
                     r \in Relocations}}

Apps ==
    {AppOf([i \in 1..Len(rodata) |-> DataSection(rodata[i])], text) :
        rodata \in {<<>>, <<8>>, <<40, 3>>},
        text \in {<<>>,
                  <<TextSection(16, <<AppSymbol("roc_f", 0, 16)>>)>>,
                  <<TextSection(20, <<AppSymbol("roc_g", 0, 20)>>),
                    TextSection(33, <<AppSymbol("roc_f", 8, 16)>>)>>,
                  <<TextSection(32, <<AppSymbol("roc_f", 0, 16), AppSymbol("roc_g", 16, 16)>>),
                    TextSection(24, <<AppSymbol("roc_f", 4, 20)>>)>>}}
    \cup RelocApps

InitLink ==
    /\ symbol_storage_map = <<>>
    /\ allocation_map = <<>>
    /\ join_param_map = [id \in JoinIds |-> NoJoin]
    /\ general_free_regs = GENERAL_DEFAULT_FREE_REGS
    /\ float_free_regs = FLOAT_DEFAULT_FREE_REGS
    /\ general_used_regs = <<>>
    /\ float_used_regs = <<>>
    /\ general_used_callee_saved_regs = {}
    /\ float_used_callee_saved_regs = {}
    /\ free_stack_chunks = <<>>
    /\ stack_size = 0
    /\ fn_call_stack_size = 0
    /\ regs = <<>>
    /\ mem = <<>>
    /\ fatal = FALSE
    /\ phase = "link"
    /\ \E files \in (Hosts \X {PlainApp}) \cup ({HostOf(Plain), HostOf(Padded)} \X Apps) :
          /\ exec_data = files[1]
          /\ app_data = files[2]
    /\ exec_mmap = NoFile
    /\ md = NoFile
    /\ status = [step |-> "start"]

storage_vars ==
    <<symbol_storage_map, allocation_map, join_param_map, general_free_regs,
      float_free_regs, general_used_regs, float_used_regs,
      general_used_callee_saved_regs, float_used_callee_saved_regs,
      free_stack_chunks, stack_size, fn_call_stack_size, regs, mem, fatal, phase>>

Preprocess ==
    /\ status.step = "start"
    /\ \E r \in {preprocess(exec_data)} :
           /\ exec_mmap' = r.out
           /\ md' = r.md
           /\ status' = [step |-> "preprocessed", code |-> r.status]
    /\ UNCHANGED <<exec_data, app_data>>
    /\ UNCHANGED storage_vars

Surgery ==
    /\ status.step = "preprocessed"
    /\ status.code = 0
    /\ \E overflow_checks \in BOOLEAN :
       \E r \in {surgery(exec_mmap, md, app_data, overflow_checks)} :
           /\ exec_mmap' = r.out
           /\ status' = [step |-> "linked", code |-> r.status]
    /\ UNCHANGED <<exec_data, app_data, md>>
    /\ UNCHANGED storage_vars

NextLink ==
    \/ Preprocess
    \/ Surgery

SpecLink == InitLink /\ [][NextLink]_vars

(***************************************************************************)
(* What the properties speak of.                                           *)
(***************************************************************************)
\* the live symbols stored on the stack
StackSyms == {sym \in Live : OnStack(Cur, sym)}

\* [offset, offset + size) as stack_offset_and_size reports it
Region(sym) == stack_offset_and_size(Cur, sym)

Overlap(r1, r2) == r1[1] < r2[1] + r2[2] /\ r2[1] < r1[1] + r1[2]

\* both hold the allocation handle of one claim_stack_area
SharesHandle(x, y) ==
    allocation_map[x] # NoAlloc /\ allocation_map[x].id = allocation_map[y].id

Bytes(r) == r[1]..(r[1] + r[2] - 1)

FreeBytes(chunks) == UNION {Bytes(chunks[i]) : i \in 1..Len(chunks)}

\* the symbols that hold an allocation handle, and the region of the handle
Holders == {sym \in AllSyms : allocation_map[sym] # NoAlloc}

HandleRegion(sym) == <<allocation_map[sym].base_offset, allocation_map[sym].size>>

\* the storage of sym names a register
InReg(s, sym) ==
    /\ s.symbol_storage_map[sym].tag \in {"Reg", "Primitive"}
    /\ s.symbol_storage_map[sym].reg # NoReg

\* the amounts claim_stack_size is asked for
ClaimSizes == 1..MaxStack

(***************************************************************************)
(* C1                                                                      *)
(***************************************************************************)
\* C1, as stated: the regions stack_offset_and_size reports for two distinct
\* live stack symbols are disjoint, and every reported offset lies in
\* [-stack_size, 0).
C1_AsStated ==
    \A x \in StackSyms :
        /\ -stack_size <= Region(x)[1] /\ Region(x)[1] < 0
        /\ \A y \in StackSyms \ {x} : ~Overlap(Region(x), Region(y))

\* C1: the regions of two distinct live stack symbols are disjoint unless the
\* two hold the same allocation handle (a structure and what was read out of
\* it), and every reported offset lies in [-stack_size, 0) or is the offset of
\* a stack argument slot, which the caller pushed above the frame.
C1_DisjointRegions ==
    \A x \in StackSyms :
        /\ \/ -stack_size <= Region(x)[1] /\ Region(x)[1] < 0
           \/ Region(x)[1] \in StackArgOffsets
        /\ \A y \in StackSyms \ {x} :
              ~SharesHandle(x, y) => ~Overlap(Region(x), Region(y))

\* a stack argument above the frame and an unrelated symbol inside it
C1_Witness ==
    \E x, y \in StackSyms :
        /\ ~SharesHandle(x, y)
        /\ Region(x)[1] \in StackArgOffsets
        /\ Region(y)[1] < 0

(***************************************************************************)
(* C2                                                                      *)
(***************************************************************************)
\* C2: once every claimed symbol is freed, free_stack_chunks is exactly the one
\* chunk (-stack_size, stack_size), whatever sizes were asked for.
C2_OneChunkWhenAllFreed ==
    (Live = {} /\ stack_size > 0) => free_stack_chunks = << <<-stack_size, stack_size>> >>

(***************************************************************************)
(* C3                                                                      *)
(***************************************************************************)
\* C3: claim_stack_size(n) returning o, then free_stack_chunk(o, n), leaves
\* free_stack_chunks as it was before the claim; here for the claims that an
\* existing free chunk serves, where the frame does not grow.
C3_RoundTrip ==
    \A n \in ClaimSizes :
        FittingChunk(free_stack_chunks, RoundUp8(n)) # 0 =>
            LET s1 == claim_stack_size(Cur, n)
            IN  free_stack_chunk(s1, s1.ret.off, n).free_stack_chunks = free_stack_chunks

(***************************************************************************)
(* C4                                                                      *)
(***************************************************************************)
Perms(S) ==
    {p \in [1..Cardinality(S) -> S] : \A i, j \in 1..Cardinality(S) : i # j => p[i] # p[j]}

\* free_stack_chunk of the areas of the symbols of order, one after the other
RECURSIVE FreeAll(_, _)
FreeAll(s, order) ==
    IF order = <<>> THEN s
    ELSE FreeAll(free_stack_chunk(s, HandleRegion(Head(order))[1], HandleRegion(Head(order))[2]),
                 Tail(order))

Touch(x, y) == HandleRegion(x)[1] + HandleRegion(x)[2] = HandleRegion(y)[1]

\* C4: after two chunks that exactly touch are freed, in either order, one
\* chunk of the free list holds both; and the chunks of any set of claimed
\* areas, freed in any order, leave the same free_stack_chunks.
C4_Coalesces ==
    /\ \A x, y \in Holders :
          Touch(x, y) =>
              \A order \in {<<x, y>>, <<y, x>>} :
                  LET s2 == FreeAll(Cur, order)
                  IN  /\ ~s2.fatal
                      /\ \E i \in 1..Len(s2.free_stack_chunks) :
                            Bytes(HandleRegion(x)) \cup Bytes(HandleRegion(y))
                                \subseteq Bytes(s2.free_stack_chunks[i])
    /\ \A S \in SUBSET Holders :
          LET first == CHOOSE p \in Perms(S) : TRUE
          IN  \A p \in Perms(S) :
                  /\ ~FreeAll(Cur, p).fatal
                  /\ FreeAll(Cur, p).free_stack_chunks = FreeAll(Cur, first).free_stack_chunks

\* two claimed areas that touch, one of them next to a chunk already free:
\* freeing them joins three chunks
C4_Witness ==
    \E x, y \in Holders :
        /\ Touch(x, y)
        /\ \E i \in 1..Len(free_stack_chunks) :
              free_stack_chunks[i][1] = HandleRegion(y)[1] + HandleRegion(y)[2]
        /\ Cardinality(Holders) >= 3

(***************************************************************************)
(* C5                                                                      *)
(***************************************************************************)
\* the symbols held in a caller-saved register that has their value
HeldCallerSaved ==
    {sym \in AllSyms :
        /\ InReg(Cur, sym)
        /\ symbol_storage_map[sym].reg \in CallerSavedRegs
        /\ ReadReg(regs, symbol_storage_map[sym].reg) = sym}

\* the register a load of sym returns has the value of sym, after
\* push_used_caller_saved_regs_to_stack and a call that overwrites the
\* caller-saved registers
SurvivesCall(sym) ==
    LET s1 == push_used_caller_saved_regs_to_stack(Cur)
        s2 == [s1 EXCEPT !.regs = Clobber(@)]
        s3 == IF symbol_storage_map[sym].reg \in GeneralRegs
              THEN load_to_general_reg(s2, sym)
              ELSE load_to_float_reg(s2, sym)
    IN  ~s3.fatal /\ ReadReg(s3.regs, s3.ret.reg) = sym

\* C5: every symbol held in a caller-saved register has its value in the
\* register a load returns after the spill and the call.
C5_SpillPreservesValue == \A sym \in HeldCallerSaved : SurvivesCall(sym)

(***************************************************************************)
(* C6                                                                      *)
(***************************************************************************)
\* C6: a symbol whose storage names register r is paired with r in the used
\* table of r's pool, and r is not in the pool's free list.
C6_RegisterOwned ==
    \A sym \in AllSyms :
        InReg(Cur, sym) =>
            LET r == symbol_storage_map[sym].reg
            IN  IF r \in GeneralRegs
                THEN Contains(general_used_regs, <<r, sym>>) /\ ~Contains(general_free_regs, r)
                ELSE Contains(float_used_regs, <<r, sym>>) /\ ~Contains(float_free_regs, r)

C8_NegativeOffsets ==
    \A n \in ClaimSizes :
        LET r == claim_stack_size(Cur, n)
        IN  ~r.fatal => (r.ret.off < 0 /\ -r.stack_size <= r.ret.off)

(***************************************************************************)
(* C9                                                                      *)
(***************************************************************************)
\* after an operation that left the manager as r, the area whose handle sym
\* held is free as one chunk if sym was the last holder, and no byte of it is
\* free if it was not
Returned(r, sym) ==
    /\ ~r.fatal
    /\ r.allocation_map[sym] = NoAlloc
    /\ IF StrongCount(Cur, allocation_map[sym].id) = 1
       THEN \E i \in 1..Len(r.free_stack_chunks) :
               Bytes(HandleRegion(sym)) \subseteq Bytes(r.free_stack_chunks[i])
       ELSE FreeBytes(r.free_stack_chunks) \cap Bytes(HandleRegion(sym)) = {}

\* C9: no byte of an area is free while a symbol holds its handle; free_symbol
\* of a holder, or the load of a field into a register, returns the whole
\* (base_offset, size) of the area when the symbol was the last holder and
\* nothing of it otherwise; free_symbol frees nothing else.
C9_ChunkReturnedByLastHolder ==
    \A sym \in Holders :
        /\ FreeBytes(free_stack_chunks) \cap Bytes(HandleRegion(sym)) = {}
        /\ Returned(free_symbol(Cur, sym), sym)
        /\ FreeBytes(free_symbol(Cur, sym).free_stack_chunks) =
              FreeBytes(free_stack_chunks) \cup
                  (IF StrongCount(Cur, allocation_map[sym].id) = 1
                   THEN Bytes(HandleRegion(sym)) ELSE {})
        /\ symbol_storage_map[sym].tag = "ReferencedPrimitive" =>
              /\ Returned(load_to_general_reg(Cur, sym), sym)
              /\ (symbol_storage_map[sym].base_offset % 8 = 0 /\ symbol_storage_map[sym].size = 8)
                    => Returned(load_to_float_reg(Cur, sym), sym)

\* the structure is gone and a field read out of it is the last holder of its
\* area
C9_Witness ==
    \E sym \in Holders :
        /\ symbol_storage_map[sym].tag = "ReferencedPrimitive"
        /\ StrongCount(Cur, allocation_map[sym].id) = 1
        /\ allocation_map[sym].size > symbol_storage_map[sym].size

(***************************************************************************)
(* C10                                                                     *)
(***************************************************************************)
\* the manager r of a request that found the free list empty: the symbol at
\* position 0 of the used list is on the stack without a register, and the
\* request got its register
Evicted(r, used_regs) ==
    /\ ~r.fatal
    /\ used_regs # <<>>
    /\ r.symbol_storage_map[used_regs[1][2]].tag = "Primitive"
    /\ r.symbol_storage_map[used_regs[1][2]].reg = NoReg
    /\ r.ret.reg = used_regs[1][1]

SpilledSyms ==
    {sym \in Live : symbol_storage_map[sym].tag = "Primitive" /\ symbol_storage_map[sym].reg = NoReg}

RECURSIVE ClaimGeneralRegs(_, _)
ClaimGeneralRegs(s, syms) ==
    IF syms = <<>> THEN s
    ELSE ClaimGeneralRegs(claim_general_reg(s, Head(syms)), Tail(syms))

\* C10: a request for a register that finds the free list of the pool empty
\* evicts the symbol at position 0 of the used list, which is left as
\* Stack(Primitive{reg: None}), and the requester holds its register; and
\* claiming one general register more than the free list has, from reset,
\* leaves the first symbol at Primitive{base_offset: -8, reg: None} with
\* stack_size 8.
C10_EvictsOldest ==
    /\ general_free_regs = <<>> =>
          /\ \A sym \in Symbols :
                Fresh(sym) =>
                    /\ Evicted(claim_general_reg(Cur, sym), general_used_regs)
                    /\ claim_general_reg(Cur, sym).symbol_storage_map[sym]
                          = Reg(general_used_regs[1][1])
          /\ Evicted(with_tmp_general_reg(Cur), general_used_regs)
          /\ \A sym \in SpilledSyms :
                /\ Evicted(load_to_general_reg(Cur, sym), general_used_regs)
                /\ load_to_general_reg(Cur, sym).symbol_storage_map[sym].reg
                      = general_used_regs[1][1]
    /\ float_free_regs = <<>> =>
          /\ \A sym \in Symbols :
                Fresh(sym) =>
                    /\ Evicted(claim_float_reg(Cur, sym), float_used_regs)
                    /\ claim_float_reg(Cur, sym).symbol_storage_map[sym]
                          = Reg(float_used_regs[1][1])
          /\ Evicted(with_tmp_float_reg(Cur), float_used_regs)
          /\ \A sym \in SpilledSyms :
                /\ Evicted(load_to_float_reg(Cur, sym), float_used_regs)
                /\ load_to_float_reg(Cur, sym).symbol_storage_map[sym].reg
                      = float_used_regs[1][1]
    /\ LET n == Len(GENERAL_DEFAULT_FREE_REGS)
           r == ClaimGeneralRegs(reset, SubSeq(SymName, 1, n + 1))
       IN  /\ r.symbol_storage_map[SymName[1]] = Primitive(-8, NoReg)
           /\ r.stack_size = 8

\* one general register more than the free list has was claimed from reset
C10_Witness ==
    /\ general_free_regs = <<>>
    /\ symbol_storage_map[SymName[1]] = Primitive(-8, NoReg)
    /\ \A i \in 2..(Len(GENERAL_DEFAULT_FREE_REGS) + 1) :
          symbol_storage_map[SymName[i]].tag = "Reg"
    /\ stack_size = 8

(***************************************************************************)
(* C11                                                                     *)
(***************************************************************************)
\* what the location of sym holds: its register, or its slot once spilled
ValueAt(s, sym) ==
    LET storage == s.symbol_storage_map[sym]
    IN  IF storage.tag = "Reg" THEN ReadReg(s.regs, storage.reg)
        ELSE IF storage.tag = "Primitive" /\ storage.reg # NoReg
        THEN ReadReg(s.regs, storage.reg)
        ELSE IF storage.tag = "Primitive" THEN ReadMem(s.mem, storage.base_offset)
        ELSE Junk

\* s is the manager before a jump to id with args and r the manager after it:
\* the occupants of the registers of the parameters were spilled with their
\* values, the registers hold the arguments, the parameter storages are kept
JumpPassed(s, r, id, args) ==
    /\ r.join_param_map[id] = s.join_param_map[id]
    /\ \A i \in 1..Len(args) :
          s.join_param_map[id][i].tag = "Reg" =>
              /\ \A v \in HeldIn(s, s.join_param_map[id][i].reg) \ {args[i]} :
                    /\ r.symbol_storage_map[v].tag = "Primitive"
                    /\ r.symbol_storage_map[v].reg = NoReg
                    /\ ValueAt(r, v) = ValueAt(s, v)
              /\ HeldIn(s, s.join_param_map[id][i].reg) \ {args[i]} # {} =>
                    ReadReg(r.regs, s.join_param_map[id][i].reg) = ValueAt(s, args[i])

\* C11: when the register of a register parameter of a join point is occupied
\* by a live symbol v other than the argument, setup_jump spills v, which is
\* left as Stack(Primitive{reg: None}) holding its value, the register then
\* holds the value of the argument, and the parameter storages recorded under
\* the join-point id are the same after setup_jump as before it.
C11_JumpSpillsOccupant ==
    \A id \in JoinIds :
        join_param_map[id] # NoJoin =>
            \A args \in ArgLists(id) :
                ~setup_jump(Cur, id, args, ArgLayouts(id)).fatal =>
                    JumpPassed(Cur, setup_jump(Cur, id, args, ArgLayouts(id)), id, args)

(***************************************************************************)
(* C12                                                                     *)
(***************************************************************************)
\* the ranges a release may name: any offset of the frame, with the sizes of
\* the areas, of runs of them and of the whole frame
FreeRanges == {<<o, n>> : o \in (-MaxArena)..(-1), n \in AreaSizes \cup {1, 24, MaxArena}}

\* the free chunks that [range[1], range[1] + range[2]) intersects
ChunksHit(range) ==
    {i \in 1..Len(free_stack_chunks) : Overlap(range, free_stack_chunks[i])}

\* C12: free_stack_chunk(offset, size) is fatal whenever [offset, offset+size)
\* intersects a chunk already in free_stack_chunks, be it the identical chunk,
\* a part of a chunk, a range around a chunk or a range spanning several
\* chunks, and the list is not changed by it.
C12_DoubleFreeIsFatal ==
    \A range \in FreeRanges :
        ChunksHit(range) # {} =>
            /\ free_stack_chunk(Cur, range[1], range[2]).fatal
            /\ free_stack_chunk(Cur, range[1], range[2]).free_stack_chunks = free_stack_chunks

\* two chunks are free, and a release of a range spanning both of them, of one
\* of them again, and of a part of one of them was refused
C12_Witness ==
    /\ Len(free_stack_chunks) >= 2
    /\ \E range \in FreeRanges :
          /\ Cardinality(ChunksHit(range)) >= 2
          /\ free_stack_chunk(Cur, range[1], range[2]).fatal
    /\ \E i \in 1..Len(free_stack_chunks) :
          /\ free_stack_chunk(Cur, free_stack_chunks[i][1], free_stack_chunks[i][2]).fatal
          /\ free_stack_chunks[i][2] > 8
          /\ free_stack_chunk(Cur, free_stack_chunks[i][1] + 8, 8).fatal

(***************************************************************************)
(* C13                                                                     *)
(***************************************************************************)
\* C13: free_symbol of an identifier that has no storage in the symbol storage
\* map and is not a join-point id aborts with a fatal error.
C13_FreeOfUnknownIsFatal ==
    \A sym \in AllSyms :
        Fresh(sym) /\ sym \notin JoinIds => free_symbol(Cur, sym).fatal

(***************************************************************************)
(* C14                                                                     *)
(***************************************************************************)
\* the storage of sym in s is a region of an allocation
Referenced(s, sym) == s.symbol_storage_map[sym].tag \in {"Complex", "ReferencedPrimitive"}

\* the handle sym holds in s covers the region of its storage
Covered(s, sym) ==
    /\ s.allocation_map[sym] # NoAlloc
    /\ s.allocation_map[sym].base_offset <= s.symbol_storage_map[sym].base_offset
    /\ s.symbol_storage_map[sym].base_offset + s.symbol_storage_map[sym].size
          <= s.allocation_map[sym].base_offset + s.allocation_map[sym].size

\* r is the manager after sym was derived from structure: both hold the handle
\* structure held before
Derived(r, sym, structure) ==
    ~r.fatal =>
        /\ Referenced(r, sym)
        /\ r.allocation_map[sym] = allocation_map[structure]
        /\ r.allocation_map[structure] = allocation_map[structure]

\* C14: in every reachable state every symbol stored as Complex{o, s} or
\* ReferencedPrimitive{o, s} has an entry in the allocation map whose range
\* contains [o, o+s); a symbol created by load_field_at_index or
\* load_union_tag_id holds the handle of its structure; and a symbol has an
\* entry in the allocation map only while its storage is Complex or
\* ReferencedPrimitive.
C14_AllocationCovers ==
    /\ \A sym \in AllSyms : Referenced(Cur, sym) => Covered(Cur, sym)
    /\ \A sym \in AllSyms : allocation_map[sym] # NoAlloc => Referenced(Cur, sym)
    /\ \A sym \in Symbols, structure \in Live :
          Fresh(sym) /\ symbol_storage_map[structure].tag = "Complex" =>
              /\ \A field_layouts \in FieldLayouts :
                    SumSizes(field_layouts) = symbol_storage_map[structure].size =>
                        \A index \in 0..(Len(field_layouts) - 1) :
                            Derived(load_field_at_index(Cur, sym, structure, index,
                                                        field_layouts),
                                    sym, structure)
              /\ \A union_layout \in UnionLayouts :
                    union_layout.data_size = symbol_storage_map[structure].size =>
                        Derived(load_union_tag_id(Cur, sym, structure, union_layout),
                                sym, structure)

\* a field past the start of a structure was loaded: the structure and the
\* symbol derived from it are the two holders of one handle
C14_Witness ==
    \E structure \in Live, sym \in Live :
        /\ sym # structure
        /\ symbol_storage_map[structure].tag = "Complex"
        /\ symbol_storage_map[sym].tag = "ReferencedPrimitive"
        /\ symbol_storage_map[sym].base_offset > symbol_storage_map[structure].base_offset
        /\ allocation_map[sym] = allocation_map[structure]
        /\ StrongCount(Cur, allocation_map[structure].id) = 2

(***************************************************************************)
(* C15                                                                     *)
(***************************************************************************)
\* the entries of the two used tables of s
UsedEntries(s) ==
    {s.general_used_regs[i] : i \in 1..Len(s.general_used_regs)}
        \cup {s.float_used_regs[i] : i \in 1..Len(s.float_used_regs)}

\* s is the manager before push_used_caller_saved_regs_to_stack and r the
\* manager after it
PushKept(s, r) ==
    /\ r.general_used_regs = SelectSeq(s.general_used_regs, LAMBDA e : general_callee_saved(e[1]))
    /\ r.float_used_regs = SelectSeq(s.float_used_regs, LAMBDA e : float_callee_saved(e[1]))
    /\ \A e \in UsedEntries(s) :
          IF e[1] \in CallerSavedRegs
          THEN /\ Contains(r.general_free_regs, e[1]) \/ Contains(r.float_free_regs, e[1])
               /\ \A u \in UsedEntries(r) : u[1] # e[1]
               /\ r.symbol_storage_map[e[2]].tag = "Primitive"
               /\ r.symbol_storage_map[e[2]].reg = NoReg
          ELSE r.symbol_storage_map[e[2]] = s.symbol_storage_map[e[2]]

DynamicTable(file) ==
    LET program_headers == load_structs_inplace(file.cells, "ph", file.e_phoff, file.e_phnum)
        dynamic == program_headers[CHOOSE i \in 1..file.e_phnum : program_headers[i].p_type = 2]
        d(i) == load_struct_inplace(file.cells, "dyn", dynamic.p_offset + 16 * i)
        end == CHOOSE i \in 0..Cardinality(DOMAIN file.cells) :
                  d(i).d_tag = DT_NULL /\ \A j \in 0..(i - 1) : d(j).d_tag # DT_NULL
    IN  [i \in 1..(end + 1) |-> d(i - 1)]

\* the positions of the DT_NEEDED entries of a table
Needed(table) == {i \in 1..Len(table) : table[i].d_tag = DT_NEEDED}

\* the entry names the library the application stands for
NamesSharedLib(exec, d) ==
    d.d_tag = DT_NEEDED /\ d.d_val \in DOMAIN exec.dynstr /\ exec.dynstr[d.d_val] = SharedLibName

\* an entry of the output is the entry of the host, its address moved with
\* the first load segment if it is one
SameEntry(out, host, added_data) ==
    /\ out.d_tag = host.d_tag
    /\ \/ out.d_val = host.d_val
       \/ out.d_tag \in AddressTags /\ out.d_val = host.d_val + added_data

\* preprocess has run and returned code
Preprocessed(code) == status.step = "preprocessed" /\ status.code = code

\* C16: the dynamic table that preprocess writes is the table of the host
\* without one DT_NEEDED entry, which names the shared library; the other
\* entries, with the DT_NULL that ends the table, follow in the order of the
\* host; and preprocess returns -1 for a host of which no DT_NEEDED entry
\* names the shared library
C16_OneNeededRemoved ==
    /\ Preprocessed(0) =>
          LET host == DynamicTable(exec_data)
              out == DynamicTable(exec_mmap)
          IN  /\ Cardinality(Needed(out)) = Cardinality(Needed(host)) - 1
              /\ \E gone \in Needed(host) :
                    /\ NamesSharedLib(exec_data, host[gone])
                    /\ Len(out) = Len(host) - 1
                    /\ \A i \in 1..Len(out) :
                          SameEntry(out[i], host[IF i < gone THEN i ELSE i + 1], md.added_data)
    /\ status.step = "preprocessed"
          /\ (\A i \in Needed(DynamicTable(exec_data)) :
                 ~NamesSharedLib(exec_data, DynamicTable(exec_data)[i]))
          => status.code = -1

\* the entry of the shared library was followed by another library, in a host
\* linked within its padding whose dynamic section moved
C16_Witness ==
    /\ Preprocessed(0)
    /\ md.added_data > 0
    /\ md.dynamic_section_offset < md.first_load_aligned_size
    /\ \E i \in Needed(DynamicTable(exec_data)) :
          /\ NamesSharedLib(exec_data, DynamicTable(exec_data)[i])
          /\ i + 1 \in Needed(DynamicTable(exec_data))

(***************************************************************************)
(* C17                                                                     *)
(***************************************************************************)
\* surgery has run and returned code
Linked(code) == status.step = "linked" /\ status.code = code

\* the n bytes of a file at offset
BytesAt(file, offset, n) ==
    [i \in 1..n |-> load_struct_inplace(file.cells, "byte", offset + i - 1).v]

\* the branches preprocess recorded for calls to name
Sites(name) == IF name \in DOMAIN md.surgeries THEN md.surgeries[name] ELSE <<>>

AppFunctions == Range(md.app_functions)

\* C17: after a surgery that succeeds, the four bytes at the file offset of
\* every recorded branch to an application function read, as a little-endian
\* i32, the address of the function in the new segment less the address that
\* follows the branch; and surgery returns -1 if a recorded branch has an
\* operand that is not of four bytes
C17_CallsRedirected ==
    /\ Linked(0) =>
          \A name \in AppFunctions : \A k \in 1..Len(Sites(name)) :
              from_le_bytes(BytesAt(exec_mmap, Sites(name)[k].file_offset, 4))
                  = virt_offset(md, app_data, name) - Sites(name)[k].virtual_offset
    /\ status.step = "linked"
          /\ (\E name \in AppFunctions : \E k \in 1..Len(Sites(name)) : Sites(name)[k].size # 4)
          => status.code = -1

\* two branches to one function were rewritten
C17_Witness ==
    /\ Linked(0)
    /\ \E name \in AppFunctions :
          /\ Len(Sites(name)) = 2
          /\ BytesAt(exec_mmap, Sites(name)[2].file_offset, 4)
                # BytesAt(exec_data, Sites(name)[2].file_offset, 4)

(***************************************************************************)
(* C18                                                                     *)
(***************************************************************************)
\* the application functions with an entry in the procedure linkage table
PltFunctions == AppFunctions \cap DOMAIN md.plt_addresses

\* C18: after a surgery that succeeds, the entry of every application
\* function in the procedure linkage table is the byte 0xE9, the little-endian
\* i32 of the address of the function less the address that follows these
\* five bytes, and eleven bytes 0x90; and rewriting the entry changes no byte
\* outside its sixteen bytes
C18_PltJumps ==
    /\ Linked(0) =>
          \A name \in PltFunctions :
              LET entry == BytesAt(exec_mmap, md.plt_addresses[name][1], 16)
              IN  /\ entry[1] = 233
                  /\ from_le_bytes(SubSeq(entry, 2, 5))
                        = virt_offset(md, app_data, name) - (md.plt_addresses[name][2] + 5)
                  /\ \A i \in 6..16 : entry[i] = 144
    /\ Preprocessed(0) =>
          \A name \in PltFunctions \cap DOMAIN app_func_segment_offset_map(md, app_data) :
              LET plt_off == md.plt_addresses[name][1]
                  patched == surgery_plt(exec_mmap.cells, plt_off, md.plt_addresses[name][2],
                                         virt_offset(md, app_data, name))
              IN  \A o \in (DOMAIN patched \cup DOMAIN exec_mmap.cells) \ (plt_off..(plt_off + 15)) :
                      /\ o \in DOMAIN patched
                      /\ o \in DOMAIN exec_mmap.cells
                      /\ patched[o] = exec_mmap.cells[o]

\* the entries of two functions were rewritten
C18_Witness ==
    /\ Linked(0)
    /\ Cardinality(PltFunctions) = 2
    /\ \A name \in PltFunctions :
          BytesAt(exec_mmap, md.plt_addresses[name][1], 16)
              # BytesAt(exec_data, md.plt_addresses[name][1], 16)

(***************************************************************************)
(* C19                                                                     *)
(***************************************************************************)
\* the program headers of a file
ProgramHeaders(file) == load_structs_inplace(file.cells, "ph", file.e_phoff, file.e_phnum)

SectionHeaders(file) == load_structs_inplace(file.cells, "sh", file.e_shoff, file.e_shnum)

\* the addresses at which the segments and the sections of the host end
HostEnds ==
    {ProgramHeaders(exec_data)[i].p_vaddr + ProgramHeaders(exec_data)[i].p_memsz :
        i \in 1..exec_data.e_phnum}
    \cup {SectionHeaders(exec_data)[i].sh_addr + SectionHeaders(exec_data)[i].sh_size :
            i \in 1..exec_data.e_shnum}

\* the metadata preprocess wrote names an alignment
Aligned == status.step # "start" /\ md.load_align_constraint > 0

\* C19: the address surgery computes for the new segment is congruent to the
\* file offset of the segment modulo load_align_constraint and lies in
\* [last_vaddr, last_vaddr + load_align_constraint); so the PT_LOAD that
\* surgery appends has p_offset and p_vaddr congruent modulo p_align and
\* starts above every segment and every section of the host
C19_SegmentAddress ==
    /\ Aligned =>
          /\ new_segment_vaddr(md) % md.load_align_constraint
                = new_segment_offset(md) % md.load_align_constraint
          /\ md.last_vaddr <= new_segment_vaddr(md)
          /\ new_segment_vaddr(md) < md.last_vaddr + md.load_align_constraint
    /\ Linked(0) =>
          LET new_segment == ProgramHeaders(exec_mmap)[exec_mmap.e_phnum]
          IN  /\ new_segment.p_type = PT_LOAD
              /\ new_segment.p_offset = new_segment_offset(md)
              /\ new_segment.p_vaddr = new_segment_vaddr(md)
              /\ new_segment.p_offset % new_segment.p_align
                    = new_segment.p_vaddr % new_segment.p_align
              /\ \A end \in HostEnds : end < new_segment.p_vaddr

\* the host ends further into its last page than the file does, and the
\* address was moved into the next page
C19_Witness ==
    /\ Linked(0)
    /\ md.last_vaddr % md.load_align_constraint
          > new_segment_offset(md) % md.load_align_constraint
    /\ new_segment_vaddr(md) > md.last_vaddr
    /\ md.exec_len % MIN_FUNC_ALIGNMENT # 0

(***************************************************************************)
(* C20                                                                     *)
(***************************************************************************)
\* the positions of the PT_NOTE program headers of the host
Notes == {i \in 1..exec_data.e_phnum : ProgramHeaders(exec_data)[i].p_type = PT_NOTE}

\* the symbols of a section of the host, as they are in a file
SymbolsOfSection(file, name) ==
    load_structs_inplace(file.cells, "sym", section_by_name(exec_data, name).sh_offset,
                         section_by_name(exec_data, name).sh_size \div SizeOf["sym"])

\* seq without its i-th element
Without(seq, i) == [k \in 1..(Len(seq) - 1) |-> seq[IF k < i THEN k ELSE k + 1]]

\* C20: for a host that has a PT_NOTE program header, preprocess leaves
\* added_data at 0 and shift_start equal to shift_end; the program headers it
\* writes are those of the host without one PT_NOTE, unchanged and in the
\* order of the host, followed by a null entry in the last slot; no value of
\* a dynamic entry and no st_value of a symbol is changed; and surgery writes
\* the new PT_LOAD in that last slot and leaves every section header of the
\* host as it was
C20_NoteStolen ==
    /\ Preprocessed(0) /\ Notes # {} =>
          /\ md.added_data = 0
          /\ md.shift_start = md.shift_end
          /\ exec_mmap.e_phnum = exec_data.e_phnum
          /\ \E gone \in Notes :
                ProgramHeaders(exec_mmap)
                    = Without(ProgramHeaders(exec_data), gone) \o <<Zeroed["ph"]>>
          /\ \E gone \in Needed(DynamicTable(exec_data)) :
                DynamicTable(exec_mmap) = Without(DynamicTable(exec_data), gone)
          /\ SymbolsOfSection(exec_mmap, ".symtab") = SymbolsOfSection(exec_data, ".symtab")
          /\ SymbolsOfSection(exec_mmap, ".dynsym") = SymbolsOfSection(exec_data, ".dynsym")
    /\ Linked(0) /\ Notes # {} =>
          /\ exec_mmap.e_phnum = exec_data.e_phnum
          /\ \E gone \in Notes :
                SubSeq(ProgramHeaders(exec_mmap), 1, exec_data.e_phnum - 1)
                    = Without(ProgramHeaders(exec_data), gone)
          /\ ProgramHeaders(exec_mmap)[exec_data.e_phnum]
                = ProgramHeader(PT_LOAD, new_segment_offset(md), new_segment_vaddr(md),
                                exec_mmap.e_shoff - new_segment_offset(md),
                                exec_mmap.e_shoff - new_segment_offset(md),
                                md.load_align_constraint)
          /\ exec_mmap.e_shnum = exec_data.e_shnum + 2
          /\ SubSeq(SectionHeaders(exec_mmap), 1, exec_data.e_shnum) = SectionHeaders(exec_data)
          /\ load_structs_inplace(exec_mmap.cells, "sh", exec_data.e_shoff, exec_data.e_shnum)
                = SectionHeaders(exec_data)

\* a host with two PT_NOTE program headers was linked: the second was stolen
C20_Witness ==
    /\ Linked(0)
    /\ Cardinality(Notes) = 2
    /\ \E i \in 1..(exec_mmap.e_phnum - 1) : ProgramHeaders(exec_mmap)[i].p_type = PT_NOTE

(***************************************************************************)
(* C21                                                                     *)
(***************************************************************************)
\* preprocess found no PT_NOTE program header to steal and took the fallback,
\* which starts by setting added_data
Fallback == status.step # "start" /\ Notes = {} /\ md.added_data # 0

\* the end of the program header table of the host
HostPhEnd == exec_data.e_phoff + exec_data.e_phnum * exec_data.e_phentsize

\* where the byte at an offset of the host is in the file that the fallback
\* writes: the bytes between the program header table and the end of the
\* first load segment are copied added_data further
InOutput(offset) ==
    IF HostPhEnd <= offset /\ offset < md.first_load_aligned_size - md.added_data
    THEN offset + md.added_data
    ELSE offset

\* C21: after the fallback and a surgery that succeeds, the four displacement
\* bytes of every near call of the host to an application function, where
\* they are in the output, read the address of the function in the new
\* segment less the address that follows the call in the output, which is
\* its address in the host plus added_data
C21_CallsFollowTheShift ==
    Linked(0) /\ Fallback =>
        \A name \in AppFunctions : \A k \in 1..Len(Sites(name)) :
            Sites(name)[k].size = 4 =>
                from_le_bytes(BytesAt(exec_mmap, InOutput(Sites(name)[k].file_offset), 4))
                    = virt_offset(md, app_data, name)
                        - (Sites(name)[k].virtual_offset + md.added_data)

(***************************************************************************)
(* C22                                                                     *)
(***************************************************************************)
\* the first load segment of the host that starts at file offset 0
FirstLoad ==
    ProgramHeaders(exec_data)[
        Min({i \in 1..exec_data.e_phnum :
                /\ ProgramHeaders(exec_data)[i].p_type = PT_LOAD
                /\ ProgramHeaders(exec_data)[i].p_offset = 0})]

\* x rounded up to a multiple of align
RoundedUp(x, align) == ((x + align - 1) \div align) * align

\* the padding that follows the first load segment holds n more bytes
HasPadding(n) == FirstLoad.p_filesz + n <= RoundedUp(FirstLoad.p_filesz, FirstLoad.p_align)

\* the fallback went past the test of the padding: it has set the window of
\* what it shifts
Proceeded == md.shift_end # 0

\* C22: in the fallback preprocess goes on if and only if the padding of the
\* first load segment at file offset 0 holds the added_data bytes of one more
\* program header, and returns -1 if it does not
C22_ProceedsIffPadding ==
    status.step = "preprocessed" /\ Fallback =>
        /\ Proceeded <=> HasPadding(exec_data.e_phentsize)
        /\ ~HasPadding(exec_data.e_phentsize) => status.code = -1

(***************************************************************************)
(* C24                                                                     *)
(***************************************************************************)
\* the positions of the PT_PHDR program headers of the host
Phdrs == {i \in 1..exec_data.e_phnum : ProgramHeaders(exec_data)[i].p_type = PT_PHDR}

\* C24: after a fallback that succeeds, the PT_PHDR program header of the
\* output has p_filesz and p_memsz larger by added_data than those of the
\* host, wherever it is in the table
C24_PhdrGrows ==
    Preprocessed(0) /\ Fallback =>
        \A i \in Phdrs :
            /\ ProgramHeaders(exec_mmap)[i].p_type = PT_PHDR
            /\ ProgramHeaders(exec_mmap)[i].p_filesz
                  = ProgramHeaders(exec_data)[i].p_filesz + md.added_data
            /\ ProgramHeaders(exec_mmap)[i].p_memsz
                  = ProgramHeaders(exec_data)[i].p_memsz + md.added_data

(***************************************************************************)
(* C25                                                                     *)
(***************************************************************************)
\* the fallback copied the bytes at an offset of the host added_data further
Shifted(offset) ==
    HostPhEnd <= offset /\ offset < md.first_load_aligned_size - md.added_data

\* C25: after the fallback and a surgery that succeeds, the header of every
\* section of the host whose bytes preprocess moved has sh_offset larger by
\* added_data, the header of every other section of the host keeps its
\* sh_offset, and among the sections that the first load segment holds
\* sh_offset has changed for exactly those whose sh_addr has changed
C25_SectionsFollowTheShift ==
    Linked(0) /\ Fallback =>
        \A i \in 1..exec_data.e_shnum :
            LET host == SectionHeaders(exec_data)[i]
                final == SectionHeaders(exec_mmap)[i]
            IN  /\ final.sh_offset
                      = IF Shifted(host.sh_offset) THEN host.sh_offset + md.added_data
                        ELSE host.sh_offset
                /\ FirstLoad.p_vaddr <= host.sh_addr
                      /\ host.sh_addr < FirstLoad.p_vaddr + FirstLoad.p_memsz
                      => (final.sh_offset # host.sh_offset <=> final.sh_addr # host.sh_addr)

(***************************************************************************)
(* C30                                                                     *)
(***************************************************************************)
\* C30: after a fallback that succeeds, every file offset of the metadata
\* that surgery writes through, the offset of each recorded branch and of
\* each entry of the procedure linkage table, is in the output the offset of
\* the bytes that it was the offset of in the host
C30_OffsetsFollowTheShift ==
    Preprocessed(0) /\ Fallback =>
        /\ \A name \in AppFunctions : \A k \in 1..Len(Sites(name)) :
              BytesAt(exec_mmap, Sites(name)[k].file_offset, Sites(name)[k].size)
                  = BytesAt(exec_data, Sites(name)[k].file_offset, Sites(name)[k].size)
        /\ \A name \in PltFunctions :
              BytesAt(exec_mmap, md.plt_addresses[name][1], PLT_ADDRESS_OFFSET)
                  = BytesAt(exec_data, md.plt_addresses[name][1], PLT_ADDRESS_OFFSET)

(***************************************************************************)
(* C23                                                                     *)
(***************************************************************************)
\* the sections of the application that surgery copies, each with the file
\* offset it is copied at
CopiedSections ==
    [i \in 1..Len(app_data.rodata) |->
        [at |-> DataOffsets(md, app_data)[i], section |-> app_data.rodata[i]]]
    \o [i \in 1..Len(app_data.text) |->
          [at |-> TextOffsets(md, app_data)[i], section |-> app_data.text[i]]]

\* the symbols that the copied sections define, each with its offset in the
\* new segment once every section is copied
FinalOffsets == symbol_offset_map(md, app_data, Len(app_data.text))

\* the target of a relocation is a symbol of a copied section or a function
\* of the host
Defined(rel) == rel.target \in DOMAIN FinalOffsets \cup DOMAIN md.roc_func_addresses

\* the address of the target of a relocation
FinalAddress(rel) ==
    IF rel.target \in DOMAIN FinalOffsets
    THEN FinalOffsets[rel.target] + new_segment_vaddr(md)
    ELSE md.roc_func_addresses[rel.target]

\* surgery knows the kind and the size of the relocation
Supported(rel) ==
    /\ rel.kind \in {"Relative", "PltRelative", "GotRelative", "Absolute"}
    /\ rel.size \in {32, 64}

\* the value that the site of a relocation holds in the output: size bits,
\* read as a signed integer
SiteValue(at, rel) ==
    LET bytes == BytesAt(exec_mmap, at + rel.offset, rel.size \div 8)
    IN  IF rel.size = 32 \/ \A i \in 5..8 : bytes[i] = (IF bytes[4] >= 128 THEN 255 ELSE 0)
        THEN from_le_bytes(SubSeq(bytes, 1, 4))
        ELSE -1

\* the site of a relocation of the section copied at the file offset at
\* holds what its kind asks for
Resolved(at, rel) ==
    LET site == new_segment_vaddr(md) + (at - new_segment_offset(md)) + rel.offset
        slot == site + SiteValue(at, rel) - rel.addend
    IN  CASE rel.kind \in {"Relative", "PltRelative"} ->
                SiteValue(at, rel) = FinalAddress(rel) - site + rel.addend
          [] rel.kind = "Absolute" -> SiteValue(at, rel) = FinalAddress(rel)
          [] rel.kind = "GotRelative" ->
                /\ slot >= new_segment_vaddr(md)
                /\ BytesAt(exec_mmap, new_segment_offset(md) + slot - new_segment_vaddr(md), 8)
                      = to_le_bytes64(FinalAddress(rel))

\* all that can make surgery fail apart from a relocation is in order
Linkable ==
    /\ app_data.text # <<>>
    /\ md.load_align_constraint # 0
    /\ \A name \in AppFunctions :
          /\ name \in DOMAIN app_func_segment_offset_map(md, app_data)
          /\ \A k \in 1..Len(Sites(name)) : Sites(name)[k].size = 4

\* C23: a surgery that succeeds has resolved every relocation of every
\* section it has copied, data sections and text sections alike, against the
\* final offset of its target, in whatever order the sections are copied; and
\* surgery does not fail for a relocation unless its target is neither
\* defined in a copied section nor in roc_func_addresses
C23_RelocationsResolved ==
    /\ Linked(0) =>
          \A i \in 1..Len(CopiedSections) :
              \A j \in 1..Len(CopiedSections[i].section.relocations) :
                  Resolved(CopiedSections[i].at, CopiedSections[i].section.relocations[j])
    /\ status.step = "linked" /\ Linkable
          /\ (\A i \in 1..Len(app_data.text) : \A j \in 1..Len(app_data.text[i].relocations) :
                  /\ Supported(app_data.text[i].relocations[j])
                  /\ Defined(app_data.text[i].relocations[j]))
          => status.code = 0

(***************************************************************************)
(* C26                                                                     *)
(***************************************************************************)
\* the callee-saved registers of each pool that are not in its free list
GeneralCalleeSavedTaken ==
    {reg \in GeneralRegs : general_callee_saved(reg) /\ ~Contains(general_free_regs, reg)}

FloatCalleeSavedTaken ==
    {reg \in FloatRegs : float_callee_saved(reg) /\ ~Contains(float_free_regs, reg)}

\* C26: a callee-saved register that is not in the free list of its pool is
\* in the set of used callee-saved registers of the pool, and a register
\* leaves that set only by reset (an abort leaves no manager)
C26_CalleeSavedRecorded ==
    /\ [](/\ GeneralCalleeSavedTaken \subseteq general_used_callee_saved_regs
          /\ FloatCalleeSavedTaken \subseteq float_used_callee_saved_regs)
    /\ [][\/ Reset
          \/ fatal'
          \/ /\ general_used_callee_saved_regs \subseteq general_used_callee_saved_regs'
             /\ float_used_callee_saved_regs \subseteq float_used_callee_saved_regs']_vars

\* a symbol holds the callee-saved register after the caller-saved one was
\* taken, and the register is recorded
C26_Witness ==
    /\ \E i \in 1..Len(general_used_regs) : general_used_regs[i][1] = "RBX"
    /\ GeneralCalleeSavedTaken = {"RBX"}
    /\ "RBX" \in general_used_callee_saved_regs

(***************************************************************************)
(* C27                                                                     *)
(***************************************************************************)
\* a procedure that uses every operation that moves a register between the
\* free list and the used table of its pool; what the emitted code leaves in
\* registers and memory is not followed
InitPool == InitOf(SymbolsOf(NumJoinSyms), {}, {}, "args")

NextPool ==
    \/ Reset
    \/ GeneralRegArg
    \/ RetPointerArg
    \/ ClaimGeneralReg
    \/ ClaimFloatReg
    \/ WithTmpGeneralReg
    \/ WithTmpFloatReg
    \/ LoadToGeneralReg
    \/ LoadToFloatReg
    \/ SetupJoinpoint
    \/ SetupJump
    \/ PushUsedCallerSavedRegsToStack
    \/ FreeSymbol

SpecPool == InitPool /\ [][NextPool]_vars

\* how many times reg appears in the free list and in the used table
Appearances(free_regs, used_regs, reg) ==
    Cardinality({i \in 1..Len(free_regs) : free_regs[i] = reg})
        + Cardinality({i \in 1..Len(used_regs) : used_regs[i][1] = reg})

\* how many entries of the used tables name the symbol
Entries(sym) ==
    Cardinality({i \in 1..Len(general_used_regs) : general_used_regs[i][2] = sym})
        + Cardinality({i \in 1..Len(float_used_regs) : float_used_regs[i][2] = sym})

\* C27: every register of the default free set of a pool appears exactly once
\* in the free list and the used table of the pool together, and no symbol
\* appears in more than one entry of the used tables
C27_RegistersPartitioned ==
    ~fatal /\ phase \in {"args", "body"} =>
        /\ \A reg \in GeneralRegs : Appearances(general_free_regs, general_used_regs, reg) = 1
        /\ \A reg \in FloatRegs : Appearances(float_free_regs, float_used_regs, reg) = 1
        /\ \A sym \in AllSyms : Entries(sym) <= 1

\* the parameters of a join point have their locations, a symbol has been
\* evicted from its register to the stack, and each pool has a register in
\* its used table
C27_Witness ==
    /\ join_param_map["join"] # NoJoin
    /\ \E sym \in Symbols : symbol_storage_map[sym] = Primitive(-8, NoReg)
    /\ Len(general_free_regs) = 1
    /\ Len(general_used_regs) = 1
    /\ Len(float_used_regs) = 1

(***************************************************************************)
(* C28                                                                     *)
(***************************************************************************)
\* the parameters of the join point id are several, all in registers
RegisterParams(id) ==
    /\ join_param_map[id] # NoJoin
    /\ Len(join_param_map[id]) >= 2
    /\ \A i \in 1..Len(join_param_map[id]) : join_param_map[id][i].tag = "Reg"

\* some argument of the jump is in the register of a parameter other than
\* its own
Crossed(id, args) ==
    \E i, j \in 1..Len(args) :
        /\ i # j
        /\ args[i] \in HeldIn(Cur, join_param_map[id][j].reg)

\* C28: when the arguments of a jump occupy the registers of each other's
\* parameters, after setup_jump the register of every parameter holds the
\* value that its argument had before setup_jump
C28_ParallelMove ==
    \A id \in JoinIds :
        RegisterParams(id) =>
            \A args \in ArgLists(id) :
                Crossed(id, args) /\ ~setup_jump(Cur, id, args, ArgLayouts(id)).fatal =>
                    \A i \in 1..Len(args) :
                        ReadReg(setup_jump(Cur, id, args, ArgLayouts(id)).regs,
                                join_param_map[id][i].reg)
                            = ValueAt(Cur, args[i])

(***************************************************************************)
(* C29                                                                     *)
(***************************************************************************)
\* C29: no chunk of free_stack_chunks intersects the region of a live symbol
\* stored on the stack, the 8-byte slot of a Primitive or the region of a
\* Complex or a ReferencedPrimitive: claim_stack_size does not hand out
\* memory that a live symbol refers to
C29_FreeChunksAreDead ==
    \A i \in 1..Len(free_stack_chunks) :
        \A sym \in StackSyms : ~Overlap(free_stack_chunks[i], Region(sym))

\* a chunk of free_stack_chunks starts where the region of a live symbol of
\* the frame ends
C29_Witness ==
    \E i \in 1..Len(free_stack_chunks) :
        \E sym \in StackSyms :
            /\ Region(sym)[1] + RoundUp8(Region(sym)[2]) = free_stack_chunks[i][1]
            /\ free_stack_chunks[i][1] + free_stack_chunks[i][2] <= 0

====
